---- MODULE Spec2Model ----
(***************************************************************************)
(* 66 / Santase against an AI: the round engine (gameplay.py), the player  *)
(* classes (player.py) and the AI strategies (ai.py).                      *)
(*                                                                         *)
(* A card is a string, rank followed by suit ("KH" is Python's ("K","H")); *)
(* Python's None is the string "None", an exception leaving a call is the  *)
(* string "Raised".  Lists are sequences, in the order Python keeps them.  *)
(***************************************************************************)
EXTENDS Integers, Sequences, FiniteSets, TLC

None == "None"
Raised == "Raised"

\* ------------------------------------------------------------------ bounds
\* Shuffles the deal is drawn from: Shuffle(0) .. Shuffle(MaxShuffle).
MaxShuffle == 1
\* Tricks resolved in a round before the human stops clicking cards.
MaxTricks == 2
\* Marriage bonuses awarded in a round before the engine is left alone.
MaxAwards == 2

\* ------------------------------------------------------------------- cards
suits == <<"H", "D", "C", "S">>
ranks == <<"9", "J", "Q", "K", "10", "A">>
Suits == {suits[i] : i \in 1..4}
Ranks == {ranks[i] : i \in 1..6}

\* [(rank, suit) for suit in suits for rank in ranks]
full_deck ==
  << "9H", "JH", "QH", "KH", "10H", "AH",
     "9D", "JD", "QD", "KD", "10D", "AD",
     "9C", "JC", "QC", "KC", "10C", "AC",
     "9S", "JS", "QS", "KS", "10S", "AS" >>

Cards == {full_deck[i] : i \in 1..24}

CardIndex == [c \in Cards |-> CHOOSE i \in 1..24 : full_deck[i] = c]
\* card[0]
RankOf == [c \in Cards |-> ranks[((CardIndex[c] - 1) % 6) + 1]]
\* card[1]
SuitOf == [c \in Cards |-> suits[((CardIndex[c] - 1) \div 6) + 1]]
\* (rank, suit)
Card(rank, suit) == CHOOSE c \in Cards : RankOf[c] = rank /\ SuitOf[c] = suit

CARD_VALUES == [r \in Ranks |->
  CASE r = "9" -> 0 [] r = "J" -> 2 [] r = "Q" -> 3
    [] r = "K" -> 4 [] r = "10" -> 10 [] r = "A" -> 11]

Value(c) == CARD_VALUES[RankOf[c]]

\* ------------------------------------------------------------ Python lists
Range(s) == {s[i] : i \in 1..Len(s)}
\* card in lst
In(c, s) == \E i \in 1..Len(s) : s[i] = c
\* lst.pop(i) leaves this behind (i counted from 1)
RemoveAt(s, i) == SubSeq(s, 1, i - 1) \o SubSeq(s, i + 1, Len(s))
\* lst.remove(c): the first occurrence goes
Remove(s, c) ==
  IF In(c, s)
  THEN RemoveAt(s, CHOOSE i \in 1..Len(s) : s[i] = c /\ \A j \in 1..(i - 1) : s[j] # c)
  ELSE s
\* [c for c in hand if c[1] == suit]
OfSuit(hand, suit) == SelectSeq(hand, LAMBDA c : SuitOf[c] = suit)
\* dict.get(key): None when the key is absent
Get(d, key) == IF key \in DOMAIN d THEN d[key] ELSE None
\* Python truth of a value that is a card, a suit or None
Truthy(v) == v # None

\* dict.get(key, default)
GetOr(d, key, default) == IF key \in DOMAIN d THEN d[key] ELSE default

\* max(lst, key=value): the first card of greatest value
FirstMax(s) ==
  s[CHOOSE i \in 1..Len(s) :
      /\ \A j \in 1..Len(s) : Value(s[j]) <= Value(s[i])
      /\ \A j \in 1..(i - 1) : Value(s[j]) < Value(s[i])]
\* min(lst, key=value): the first card of least value
FirstMin(s) ==
  s[CHOOSE i \in 1..Len(s) :
      /\ \A j \in 1..Len(s) : Value(s[j]) >= Value(s[i])
      /\ \A j \in 1..(i - 1) : Value(s[j]) > Value(s[i])]

\* sorted(hand, key=value): insertion of each card after the cards already
\* placed whose value is not greater (Python's sort is stable)
RECURSIVE InsertByValue(_, _)
InsertByValue(s, c) ==
  IF s = <<>> THEN <<c>>
  ELSE IF Value(s[Len(s)]) <= Value(c) THEN Append(s, c)
  ELSE Append(InsertByValue(SubSeq(s, 1, Len(s) - 1), c), s[Len(s)])
RECURSIVE SortedByValue(_)
SortedByValue(hand) ==
  IF hand = <<>> THEN <<>>
  ELSE InsertByValue(SortedByValue(SubSeq(hand, 1, Len(hand) - 1)), hand[Len(hand)])

\* -------------------------------------------------------------- strategies
Strategies == {"JustRandom", "TrickBasedGreedy", "Expectiminimax", "MCTS"}

\* What a call of play leaves behind: the value returned (a card, None, or
\* Raised when an exception left the call), the list object passed as hand
\* afterwards, and the legal moves the strategy chose from.
Outcome(ret, hand, valid_moves) == [ret |-> ret, hand |-> hand, valid_moves |-> valid_moves]

\* JustRandom.play, the filter of the valid moves
JustRandom_valid_moves(game_state, hand) ==
  LET allowed_suit == Get(game_state, "allowed_suit")
      trump_suit == Get(game_state, "trump_suit")
      filtered ==
        IF Truthy(allowed_suit)
        THEN IF OfSuit(hand, allowed_suit) # <<>> THEN OfSuit(hand, allowed_suit)
             ELSE IF OfSuit(hand, trump_suit) # <<>> THEN OfSuit(hand, trump_suit)
             ELSE hand
        ELSE hand
  IN IF filtered = <<>> THEN hand ELSE filtered

\* JustRandom.play: every outcome random.choice can produce
JustRandom_play(game_state, hand) ==
  IF hand = <<>>
  THEN {Outcome(None, hand, <<>>)}
  ELSE LET valid_moves == JustRandom_valid_moves(game_state, hand)
       IN {Outcome(valid_moves[i], hand, valid_moves) : i \in 1..Len(valid_moves)}

\* card_wins without the test "Must follow suit to have a chance".
card_wins_off_suit(card, leader_card, trump_suit, lead_suit) ==
  IF SuitOf[card] = trump_suit /\ SuitOf[leader_card] # trump_suit THEN TRUE
  ELSE IF SuitOf[leader_card] = trump_suit /\ SuitOf[card] # trump_suit THEN FALSE
  ELSE Value(card) > Value(leader_card)

\* TrickBasedGreedy.card_wins
card_wins(card, leader_card, trump_suit, lead_suit) ==
  IF SuitOf[card] = trump_suit /\ SuitOf[leader_card] # trump_suit THEN TRUE
  ELSE IF SuitOf[leader_card] = trump_suit /\ SuitOf[card] # trump_suit THEN FALSE
  ELSE IF SuitOf[card] # lead_suit THEN FALSE
  ELSE Value(card) > Value(leader_card)

\* TrickBasedGreedy.play, following mode: the valid moves
TrickBasedGreedy_valid_moves(game_state, hand) ==
  LET allowed_suit == Get(game_state, "allowed_suit")
      trump_suit == Get(game_state, "trump_suit")
  IN IF OfSuit(hand, allowed_suit) # <<>> THEN OfSuit(hand, allowed_suit)
     ELSE IF OfSuit(hand, trump_suit) # <<>> THEN OfSuit(hand, trump_suit)
     ELSE hand

\* Following mode with the cheapest winning move picked instead of the dearest.
TrickBasedGreedy_follow_cheapest_win(game_state, valid_moves) ==
  LET leader_card == Get(game_state, "leader_card")
      wins(c) == Truthy(leader_card)
                 /\ card_wins(c, leader_card, Get(game_state, "trump_suit"),
                              Get(game_state, "allowed_suit"))
      winning_moves == SelectSeq(valid_moves, wins)
      losing_moves == SelectSeq(valid_moves, LAMBDA c : ~wins(c))
  IN IF winning_moves # <<>> THEN FirstMin(winning_moves)
     ELSE IF losing_moves # <<>> THEN FirstMin(losing_moves)
     ELSE Raised

\* TrickBasedGreedy.play, following mode: the card picked among valid_moves
TrickBasedGreedy_follow(game_state, valid_moves) ==
  LET allowed_suit == Get(game_state, "allowed_suit")
      trump_suit == Get(game_state, "trump_suit")
      leader_card == Get(game_state, "leader_card")
      wins(c) == Truthy(leader_card) /\ card_wins(c, leader_card, trump_suit, allowed_suit)
      winning_moves == SelectSeq(valid_moves, wins)
      losing_moves == SelectSeq(valid_moves, LAMBDA c : ~wins(c))
  IN IF winning_moves # <<>> THEN FirstMax(winning_moves)
     ELSE IF losing_moves # <<>> THEN FirstMin(losing_moves)
     ELSE Raised  \* min() of an empty list: ValueError

\* Leading mode with the median taken at (n - 1) // 2.
TrickBasedGreedy_lead_lower_median(hand) ==
  IF hand = <<>> THEN Raised
  ELSE SortedByValue(hand)[((Len(hand) - 1) \div 2) + 1]

\* TrickBasedGreedy.play, leading mode: the median card of the sorted hand
TrickBasedGreedy_lead(hand) ==
  IF hand = <<>> THEN Raised  \* sorted_hand[0] of an empty list: IndexError
  ELSE SortedByValue(hand)[(Len(hand) \div 2) + 1]

\* TrickBasedGreedy.play
TrickBasedGreedy_play(game_state, hand) ==
  IF Truthy(Get(game_state, "allowed_suit"))
  THEN LET valid_moves == TrickBasedGreedy_valid_moves(game_state, hand)
       IN {Outcome(TrickBasedGreedy_follow(game_state, valid_moves), hand, valid_moves)}
  ELSE LET best_card == TrickBasedGreedy_lead(hand)
       IN {Outcome(best_card, IF best_card = Raised THEN hand ELSE Remove(hand, best_card), hand)}

\* get_valid_moves without the step that falls back on the trumps.
get_valid_moves_no_trump_step(hand, allowed_suit, trump) ==
  IF Truthy(allowed_suit) /\ OfSuit(hand, allowed_suit) # <<>> THEN OfSuit(hand, allowed_suit)
  ELSE hand

\* Expectiminimax.get_valid_moves
Expectiminimax_get_valid_moves(hand, allowed_suit, trump) ==
  IF Truthy(allowed_suit) /\ OfSuit(hand, allowed_suit) # <<>> THEN OfSuit(hand, allowed_suit)
  ELSE IF Truthy(allowed_suit) /\ OfSuit(hand, trump) # <<>> THEN OfSuit(hand, trump)
  ELSE hand

\* MCTS._get_valid_moves: the hand is read from the state, not passed in
MCTS_get_valid_moves(state) ==
  LET allowed_suit == Get(state, "allowed_suit")
      trump_suit == Get(state, "trump_suit")
      hand == GetOr(state, "opponent_hand", <<>>)
  IN IF Truthy(allowed_suit) /\ OfSuit(hand, allowed_suit) # <<>> THEN OfSuit(hand, allowed_suit)
     ELSE IF Truthy(allowed_suit) /\ OfSuit(hand, trump_suit) # <<>> THEN OfSuit(hand, trump_suit)
     ELSE hand

\* MCTS.play: root.untried_moves are the valid moves of the state's own
\* opponent_hand; every child of the root carries one of them, the child
\* returned is the most visited one, and which one that is depends on the
\* random expansion order (every rollout's reward is the same number).
\* With no valid move the root has no child and the fallback returns None.
MCTS_play(game_state, hand) ==
  LET moves == MCTS_get_valid_moves(game_state)
  IN IF moves = <<>> THEN {Outcome(None, hand, moves)}
     ELSE {Outcome(moves[i], hand, moves) : i \in 1..Len(moves)}

\* Expectiminimax.play: simulate_move reads state["opponent_hand"] and
\* play reads new_state["player_played"], a KeyError when the snapshot has
\* no such key; random.choice of no valid move is an IndexError.  The card
\* returned (best_move or the fallback) is one of valid_moves.
Expectiminimax_play(game_state, hand) ==
  LET valid_moves ==
        Expectiminimax_get_valid_moves(hand, Get(game_state, "allowed_suit"), game_state["trump_suit"])
  IN IF valid_moves = <<>> THEN {Outcome(Raised, hand, valid_moves)}
     ELSE IF "opponent_hand" \notin DOMAIN game_state \/ "player_played" \notin DOMAIN game_state
          THEN {Outcome(Raised, hand, valid_moves)}
     ELSE {Outcome(valid_moves[i], hand, valid_moves) : i \in 1..Len(valid_moves)}

\* random.sample(population, k): every list of k cards at distinct places
RECURSIVE Arrangements(_, _)
Arrangements(population, k) ==
  IF k = 0 THEN {<<>>}
  ELSE UNION { {<<population[i]>> \o rest : rest \in Arrangements(RemoveAt(population, i), k - 1)}
               : i \in 1..Len(population) }

\* The sampler with the cards of the stock left in the pool.
known_without_stock(state) ==
  Range(GetOr(state, "opponent_hand", <<>>))
  \cup (IF Truthy(Get(state, "trump_card")) THEN {state.trump_card} ELSE {})
  \cup (IF Truthy(Get(state, "player_played")) THEN {state.player_played} ELSE {})
  \cup (IF Truthy(Get(state, "opponent_played")) THEN {state.opponent_played} ELSE {})
  \cup Range(GetOr(state, "player_known_cards", <<>>))

\* known = set() and what is added to it
known(state) ==
  Range(GetOr(state, "opponent_hand", <<>>))
  \cup (IF Truthy(Get(state, "trump_card")) THEN {state.trump_card} ELSE {})
  \cup (IF Truthy(Get(state, "player_played")) THEN {state.player_played} ELSE {})
  \cup (IF Truthy(Get(state, "opponent_played")) THEN {state.opponent_played} ELSE {})
  \cup Range(GetOr(state, "remaining_deck", <<>>))
  \cup Range(GetOr(state, "player_known_cards", <<>>))

\* unknown = [card for card in full_deck if card not in known]
unknown_cards(state) == SelectSeq(full_deck, LAMBDA c : c \notin known(state))

\* The generator of the random module: seeded, with what it will produce
\* determined by its state x; or not seeded by the caller, when any outcome
\* is possible.
Unseeded == [seeded |-> FALSE]
\* The generator after a number has been taken from it.
Advance(g) == [g EXCEPT !.x = (13 * @ + 7) % 101]

\* A number in 1..n taken from the generator g: the outcomes, each with the
\* generator afterwards.
randbelow(g, n) ==
  IF g.seeded THEN {[ret |-> (g.x % n) + 1, rng |-> Advance(g)]}
  ELSE {[ret |-> i, rng |-> g] : i \in 1..n}

\* random.choice(seq)
random_choice(g, seq) == {[ret |-> seq[o.ret], rng |-> o.rng] : o \in randbelow(g, Len(seq))}

\* random.sample(population, k): k cards taken one after the other, none twice
RECURSIVE random_sample(_, _, _)
random_sample(g, population, k) ==
  IF k = 0 THEN {[ret |-> <<>>, rng |-> g]}
  ELSE UNION { {[ret |-> <<population[o.ret]>> \o rest.ret, rng |-> rest.rng]
                  : rest \in random_sample(o.rng, RemoveAt(population, o.ret), k - 1)}
               : o \in randbelow(g, Len(population)) }

\* The sampler handing out the hand the human really holds.
sample_hand_true_hand(g, state, hand_size) == {[ret |-> state.player_hand, rng |-> g]}

\* Expectiminimax.sample_possible_player_hand with the generator g: the hands
\* it can return, each with the generator afterwards
sample_hand(g, state, hand_size) ==
  LET unknown == unknown_cards(state)
      sampled == GetOr(state, "player_known_cards", <<>>)
      needed == hand_size - Len(sampled)
  IN IF needed > 0 /\ Len(unknown) >= needed
     THEN {[ret |-> sampled \o o.ret, rng |-> o.rng] : o \in random_sample(g, unknown, needed)}
     ELSE {[ret |-> sampled \o unknown, rng |-> g]}

\* Expectiminimax.sample_possible_player_hand: every hand random.sample can
\* produce
sample_possible_player_hand(state, hand_size) ==
  {o.ret : o \in sample_hand(Unseeded, state, hand_size)}

\* MCTS._sample_possible_player_hand
MCTS_sample_possible_player_hand(state) ==
  LET unknown == unknown_cards(state)
      hand_size == Len(GetOr(state, "player_hand", <<>>))
  IN IF Len(unknown) >= hand_size THEN Arrangements(unknown, hand_size)
     ELSE {unknown}

\* A strategy that closes the game when it holds three cards or more.
should_close_game_on_long_hand(strategy, game_state, hand) == Len(hand) >= 3

\* should_close_game(game_state, hand) of the four strategies: each returns
\* False, whatever the state and the hand
should_close_game(strategy, game_state, hand) ==
  CASE strategy = "JustRandom" -> FALSE
    [] strategy = "TrickBasedGreedy" -> FALSE
    [] strategy = "Expectiminimax" -> FALSE
    [] strategy = "MCTS" -> FALSE

\* self.opponent.play(state, self.computer_hand), for the strategy plugged in
opponent_play(strategy, game_state, hand) ==
  CASE strategy = "JustRandom" -> JustRandom_play(game_state, hand)
    [] strategy = "TrickBasedGreedy" -> TrickBasedGreedy_play(game_state, hand)
    [] strategy = "Expectiminimax" -> Expectiminimax_play(game_state, hand)
    [] strategy = "MCTS" -> MCTS_play(game_state, hand)

\* ------------------------------------------------------------ round engine
VARIABLES
  deck, player_hand, computer_hand, trump_card, trump_suit,
  player_played, computer_played, trick_ready, first_phase, current_leader,
  player_round_points, computer_round_points, player_tricks, computer_tricks,
  player_game_points, computer_game_points,
  ongoing_animation, marriage_pending, marriage_announcement, marriage_expired,
  player_marriages_announced, computer_marriages_announced,
  computer_marriage_processed, player_won_cards, computer_won_cards,
  game_closed,
  opponent,     \* the strategy object self.opponent
  screen,       \* Game.state: "game" or "endgame"
  crashed,      \* an exception left a handler: the program has stopped
  marriage_log, \* the marriage bonuses awarded in this round, in order
  ai_call,      \* the last call of opponent.play: arguments and outcome
  input,        \* a function of the program called on its own: the arguments
  output,       \* ... and what the call returned
  stack,        \* Expectiminimax.play under way: the frames of its calls
  dicts,        \* the state dictionaries alive, by object identity
  lists,        \* the lists they refer to, by object identity
  returned,     \* the value the callee has just returned to the top frame
  rng           \* the generator of the random module

vars ==
  << deck, player_hand, computer_hand, trump_card, trump_suit,
     player_played, computer_played, trick_ready, first_phase, current_leader,
     player_round_points, computer_round_points, player_tricks, computer_tricks,
     player_game_points, computer_game_points,
     ongoing_animation, marriage_pending, marriage_announcement, marriage_expired,
     player_marriages_announced, computer_marriages_announced,
     computer_marriage_processed, player_won_cards, computer_won_cards,
     game_closed, opponent, screen, crashed, marriage_log, ai_call, input, output,
     stack, dicts, lists, returned, rng >>

\* The variables of the round engine.
engine_vars ==
  << deck, player_hand, computer_hand, trump_card, trump_suit,
     player_played, computer_played, trick_ready, first_phase, current_leader,
     player_round_points, computer_round_points, player_tricks, computer_tricks,
     player_game_points, computer_game_points,
     ongoing_animation, marriage_pending, marriage_announcement, marriage_expired,
     player_marriages_announced, computer_marriages_announced,
     computer_marriage_processed, player_won_cards, computer_won_cards,
     game_closed, opponent, screen, crashed, marriage_log, ai_call >>

\* The engine's fields as one record, for the methods below.
Self ==
  [ deck |-> deck, player_hand |-> player_hand, computer_hand |-> computer_hand,
    trump_card |-> trump_card, trump_suit |-> trump_suit,
    player_played |-> player_played, computer_played |-> computer_played,
    trick_ready |-> trick_ready, first_phase |-> first_phase,
    current_leader |-> current_leader,
    player_round_points |-> player_round_points,
    computer_round_points |-> computer_round_points,
    player_tricks |-> player_tricks, computer_tricks |-> computer_tricks,
    player_game_points |-> player_game_points,
    computer_game_points |-> computer_game_points,
    ongoing_animation |-> ongoing_animation, marriage_pending |-> marriage_pending,
    marriage_announcement |-> marriage_announcement,
    marriage_expired |-> marriage_expired,
    player_marriages_announced |-> player_marriages_announced,
    computer_marriages_announced |-> computer_marriages_announced,
    computer_marriage_processed |-> computer_marriage_processed,
    player_won_cards |-> player_won_cards, computer_won_cards |-> computer_won_cards,
    game_closed |-> game_closed, opponent |-> opponent, screen |-> screen,
    crashed |-> crashed, marriage_log |-> marriage_log, ai_call |-> ai_call ]

\* The engine's fields after a method has run.
Fields(g) ==
  /\ deck' = g.deck /\ player_hand' = g.player_hand /\ computer_hand' = g.computer_hand
  /\ trump_card' = g.trump_card /\ trump_suit' = g.trump_suit
  /\ player_played' = g.player_played /\ computer_played' = g.computer_played
  /\ trick_ready' = g.trick_ready /\ first_phase' = g.first_phase
  /\ current_leader' = g.current_leader
  /\ player_round_points' = g.player_round_points
  /\ computer_round_points' = g.computer_round_points
  /\ player_tricks' = g.player_tricks /\ computer_tricks' = g.computer_tricks
  /\ player_game_points' = g.player_game_points
  /\ computer_game_points' = g.computer_game_points
  /\ ongoing_animation' = g.ongoing_animation /\ marriage_pending' = g.marriage_pending
  /\ marriage_announcement' = g.marriage_announcement
  /\ marriage_expired' = g.marriage_expired
  /\ player_marriages_announced' = g.player_marriages_announced
  /\ computer_marriages_announced' = g.computer_marriages_announced
  /\ computer_marriage_processed' = g.computer_marriage_processed
  /\ player_won_cards' = g.player_won_cards /\ computer_won_cards' = g.computer_won_cards
  /\ game_closed' = g.game_closed /\ opponent' = g.opponent /\ screen' = g.screen
  /\ crashed' = g.crashed /\ marriage_log' = g.marriage_log /\ ai_call' = g.ai_call

\* The fields after a method has run, nothing else having changed.
Becomes(g) == Fields(g) /\ UNCHANGED <<input, output, stack, dicts, lists, returned, rng>>

\* No marriage on display (self.marriage_announcement is None); an
\* announcement is the pair of its two cards.
NoAnnouncement == <<>>
\* No call of opponent.play yet.
NoCall == [made |-> FALSE]
\* No function called on its own.
NoInput == [kind |-> "none"]
NoOutput == [fn |-> "none"]
\* No value returned and not yet taken.
NoValue == [some |-> FALSE]
\* No search under way.
NoSearch == stack = <<>> /\ dicts = <<>> /\ lists = <<>> /\ returned = NoValue /\ rng = Unseeded

\* random.shuffle(self.deck): shuffle k of the family the deals are drawn from
Shuffle(k) == [i \in 1..24 |-> full_deck[((5 * (i - 1) + 3 + 23 * k) % 24) + 1]]

\* [self.deck.pop() for _ in range(3)]
Pop3(d) == << d[Len(d)], d[Len(d) - 1], d[Len(d) - 2] >>
DropLast(d, n) == SubSeq(d, 1, Len(d) - n)

\* The deal of GamePlay.__init__ and of reset_round: two rounds of three
\* cards each, then the trump card.
Deal(shuffled) ==
  LET d1 == DropLast(shuffled, 3)
      d2 == DropLast(d1, 3)
      d3 == DropLast(d2, 3)
      d4 == DropLast(d3, 3)
  IN [ player_hand |-> Pop3(shuffled) \o Pop3(d2),
       computer_hand |-> Pop3(d1) \o Pop3(d3),
       trump_card |-> d4[Len(d4)],
       deck |-> DropLast(d4, 1) ]

\* GamePlay.get_game_state: the snapshot handed to the strategy
get_game_state(g) ==
  [ player_played |-> g.player_played,
    player_round_points |-> g.player_round_points,
    computer_round_points |-> g.computer_round_points,
    remaining_deck |-> g.deck,
    trump_card |-> g.trump_card,
    trump_suit |-> g.trump_suit,
    computer_hand |-> g.computer_hand,
    player_hand |-> g.player_hand,
    first_phase |-> g.first_phase,
    current_leader |-> g.current_leader,
    allowed_suit |-> IF g.current_leader = "player" THEN SuitOf[g.player_played] ELSE None ]

\* self.player_played[1] of get_game_state is a TypeError on None
get_game_state_raises(g) == g.current_leader = "player" /\ g.player_played = None

\* self.computer_played = self.opponent.play(state, self.computer_hand): the
\* engine after the call, for every outcome the strategy can produce.  The
\* list passed as hand is self.computer_hand itself, so what the strategy
\* removes from it is removed from the engine's hand.
call_opponent(g) ==
  IF get_game_state_raises(g) THEN {[g EXCEPT !.crashed = TRUE]}
  ELSE LET state == get_game_state(g)
       IN { [g EXCEPT
               !.computer_hand = o.hand,
               !.computer_played = IF o.ret = Raised THEN g.computer_played ELSE o.ret,
               !.crashed = (o.ret = Raised),
               !.ai_call = [ made |-> TRUE, strategy |-> g.opponent, game_state |-> state,
                             hand |-> g.computer_hand, ret |-> o.ret,
                             valid_moves |-> o.valid_moves, hand_after |-> o.hand ]]
            : o \in opponent_play(g.opponent, state, g.computer_hand) }

\* GamePlay.computer_lead: the suits in which the computer holds an
\* unannounced King and Queen
computer_marriage_suits(g) ==
  { suit \in Suits :
      /\ suit \notin g.computer_marriages_announced
      /\ In(Card("K", suit), g.computer_hand)
      /\ In(Card("Q", suit), g.computer_hand) }

\* the first of them in the order of self.suits
first_suit(S) == suits[CHOOSE i \in 1..4 : suits[i] \in S /\ \A j \in 1..(i - 1) : suits[j] \notin S]

\* 40 if suit == self.trump_suit else 20
marriage_points(suit, trump) == IF suit = trump THEN 40 ELSE 20

\* An entry of marriage_log.
Award(side, suit, trump) == [side |-> side, suit |-> suit, points |-> marriage_points(suit, trump)]

\* GamePlay.computer_lead
computer_lead(g) ==
  IF g.marriage_announcement # NoAnnouncement /\ ~g.marriage_expired
  THEN {g}
  ELSE
    LET g1 == [g EXCEPT !.marriage_announcement = NoAnnouncement]
        found == computer_marriage_suits(g1)
    IN IF ~g1.computer_marriage_processed /\ found # {}
       THEN LET suit == first_suit(found)
            IN {[g1 EXCEPT
                   !.marriage_announcement = <<Card("K", suit), Card("Q", suit)>>,
                   !.marriage_expired = FALSE,
                   !.computer_round_points = @ + marriage_points(suit, g1.trump_suit),
                   !.marriage_log = Append(@, Award("computer", suit, g1.trump_suit))]}
       ELSE { IF h.crashed THEN h
              ELSE [h EXCEPT !.current_leader = "computer", !.trick_ready = FALSE]
              : h \in call_opponent(g1) }

\* determine_trick_winner without the rule that a follower off the led suit
\* loses: the values are compared whatever the suits.
determine_trick_winner_by_value(player_card, computer_card, leader_is, trump) ==
  LET leader_card == IF leader_is = "player" THEN player_card ELSE computer_card
      follower_card == IF leader_is = "player" THEN computer_card ELSE player_card
      leader == IF leader_is = "player" THEN "player" ELSE "computer"
      follower == IF leader_is = "player" THEN "computer" ELSE "player"
  IN IF SuitOf[leader_card] = trump /\ SuitOf[follower_card] # trump THEN leader
     ELSE IF SuitOf[follower_card] = trump /\ SuitOf[leader_card] # trump THEN follower
     ELSE IF Value(leader_card) >= Value(follower_card) THEN leader
     ELSE follower

\* GamePlay.determine_trick_winner
determine_trick_winner(player_card, computer_card, leader_is, trump) ==
  LET leader_card == IF leader_is = "player" THEN player_card ELSE computer_card
      follower_card == IF leader_is = "player" THEN computer_card ELSE player_card
      leader == IF leader_is = "player" THEN "player" ELSE "computer"
      follower == IF leader_is = "player" THEN "computer" ELSE "player"
      lead_suit == SuitOf[leader_card]
  IN IF SuitOf[leader_card] = trump /\ SuitOf[follower_card] # trump THEN leader
     ELSE IF SuitOf[follower_card] = trump /\ SuitOf[leader_card] # trump THEN follower
     ELSE IF SuitOf[follower_card] # lead_suit THEN leader
     ELSE IF Value(leader_card) >= Value(follower_card) THEN leader
     ELSE follower

\* draw_cards with the 10 points of the last draw given to the side that
\* takes the trump card.
draw_cards_bonus_to_loser(g, trick_winner) ==
  IF g.deck = <<>> THEN [g EXCEPT !.first_phase = FALSE]
  ELSE
    LET card == g.deck[Len(g.deck)]
        d1 == DropLast(g.deck, 1)
        last == (d1 = <<>> /\ g.trump_card # None)
        d2 == IF last \/ d1 = <<>> THEN d1 ELSE DropLast(d1, 1)
        second == IF last THEN <<g.trump_card>>
                  ELSE IF d1 # <<>> THEN <<d1[Len(d1)]>> ELSE <<>>
        drawn ==
          IF trick_winner = "player"
          THEN [g EXCEPT
                  !.deck = d2,
                  !.player_hand = Append(@, card),
                  !.computer_hand = @ \o second,
                  !.trump_card = IF last THEN None ELSE @,
                  !.computer_round_points = IF last THEN @ + 10 ELSE @]
          ELSE [g EXCEPT
                  !.deck = d2,
                  !.computer_hand = Append(@, card),
                  !.player_hand = @ \o second,
                  !.trump_card = IF last THEN None ELSE @,
                  !.player_round_points = IF last THEN @ + 10 ELSE @]
    IN [drawn EXCEPT !.first_phase = IF drawn.deck = <<>> THEN FALSE ELSE @]

\* GamePlay.draw_cards
draw_cards(g, trick_winner) ==
  IF g.deck = <<>> THEN [g EXCEPT !.first_phase = FALSE]
  ELSE
    LET card == g.deck[Len(g.deck)]
        d1 == DropLast(g.deck, 1)
        last == (d1 = <<>> /\ g.trump_card # None)
        d2 == IF last \/ d1 = <<>> THEN d1 ELSE DropLast(d1, 1)
        second == IF last THEN <<g.trump_card>>
                  ELSE IF d1 # <<>> THEN <<d1[Len(d1)]>> ELSE <<>>
        drawn ==
          IF trick_winner = "player"
          THEN [g EXCEPT
                  !.deck = d2,
                  !.player_hand = Append(@, card),
                  !.computer_hand = @ \o second,
                  !.trump_card = IF last THEN None ELSE @,
                  !.player_round_points = IF last THEN @ + 10 ELSE @]
          ELSE [g EXCEPT
                  !.deck = d2,
                  !.computer_hand = Append(@, card),
                  !.player_hand = @ \o second,
                  !.trump_card = IF last THEN None ELSE @,
                  !.computer_round_points = IF last THEN @ + 10 ELSE @]
    IN [drawn EXCEPT !.first_phase = IF drawn.deck = <<>> THEN FALSE ELSE @]

\* GamePlay.reset_round, with the deck shuffled as Shuffle(k)
reset_round(g, k) ==
  LET d == Deal(Shuffle(k))
  IN [g EXCEPT
        !.deck = d.deck, !.player_hand = d.player_hand, !.computer_hand = d.computer_hand,
        !.trump_card = d.trump_card, !.trump_suit = SuitOf[d.trump_card],
        !.player_round_points = 0, !.computer_round_points = 0,
        !.player_tricks = 0, !.computer_tricks = 0,
        !.first_phase = TRUE, !.current_leader = "player",
        !.player_played = None, !.computer_played = None, !.trick_ready = FALSE,
        !.marriage_pending = FALSE, !.marriage_announcement = NoAnnouncement,
        !.marriage_expired = FALSE,
        !.player_marriages_announced = {}, !.computer_marriages_announced = {},
        !.computer_marriage_processed = FALSE,
        !.player_won_cards = <<>>, !.computer_won_cards = <<>>,
        !.game_closed = FALSE, !.marriage_log = <<>>]

\* The match target of check_round_end.
GAME_TARGET == 11

\* The last step with the match going on at the target itself.
end_or_reset_above_target(g, k) ==
  IF g.player_game_points > GAME_TARGET \/ g.computer_game_points > GAME_TARGET
  THEN [g EXCEPT !.screen = "endgame"]
  ELSE reset_round(g, k)

\* check_round_end, its last step: end_game_callback() or reset_round()
end_or_reset(g, k) ==
  IF g.player_game_points >= GAME_TARGET \/ g.computer_game_points >= GAME_TARGET
  THEN [g EXCEPT !.screen = "endgame"]
  ELSE reset_round(g, k)

\* GamePlay.check_round_end
check_round_end(g, k) ==
  IF Len(g.player_hand) > 0 \/ Len(g.computer_hand) > 0 THEN g
  ELSE IF g.game_closed /\ g.player_round_points < 66
  THEN end_or_reset([g EXCEPT !.computer_game_points = @ + 1, !.game_closed = FALSE], k)
  ELSE
    LET g1 == [g EXCEPT !.game_closed = FALSE]
        p == g1.player_round_points
        c == g1.computer_round_points
        winner ==
          IF p >= 66 \/ c >= 66
          THEN IF p > c THEN "player" ELSE "computer"
          ELSE IF p > c THEN "player" ELSE IF c > p THEN "computer" ELSE None
        loser_points == IF winner = "player" THEN c ELSE p
        loser_tricks == IF winner = "player" THEN g1.computer_tricks ELSE g1.player_tricks
        game_points ==
          IF p >= 66 \/ c >= 66
          THEN IF loser_tricks = 0 THEN 3 ELSE IF loser_points < 33 THEN 2 ELSE 1
          ELSE 1
        g2 == IF winner = "player" THEN [g1 EXCEPT !.player_game_points = @ + game_points]
              ELSE IF winner = "computer" THEN [g1 EXCEPT !.computer_game_points = @ + game_points]
              ELSE g1
    IN end_or_reset(g2, k)

\* GamePlay.resolve_trick, with the next round (if one starts) dealt from
\* Shuffle(k).  A play slot holding None is a TypeError in
\* determine_trick_winner, before anything is changed.
resolve_trick(g, k) ==
  IF g.player_played = None \/ g.computer_played = None
  THEN {[g EXCEPT !.crashed = TRUE]}
  ELSE
    LET winner == determine_trick_winner(g.player_played, g.computer_played,
                                         g.current_leader, g.trump_suit)
        trick_points == Value(g.player_played) + Value(g.computer_played)
        won == <<g.player_played, g.computer_played>>
        g1 == IF winner = "player"
              THEN [g EXCEPT !.player_round_points = @ + trick_points,
                             !.player_tricks = @ + 1,
                             !.current_leader = "player",
                             !.player_won_cards = @ \o won]
              ELSE [g EXCEPT !.computer_round_points = @ + trick_points,
                             !.computer_tricks = @ + 1,
                             !.current_leader = "computer",
                             !.computer_won_cards = @ \o won]
        g2 == [g1 EXCEPT !.player_played = None, !.computer_played = None,
                         !.trick_ready = FALSE]
        g3 == IF g2.first_phase THEN draw_cards(g2, winner) ELSE g2
        g4 == check_round_end(g3, k)
    IN UNION { IF h.current_leader = "computer" THEN computer_lead(h) ELSE {h} : h \in {g4} }

\* GamePlay._player_play_card: self.player_hand.pop(card_index)
player_play_card(g, i) ==
  [g EXCEPT !.player_hand = RemoveAt(@, i), !.player_played = g.player_hand[i]]

\* GamePlay.player_lead
player_lead(g, i) ==
  { IF h.crashed THEN h
    ELSE [h EXCEPT !.trick_ready = TRUE, !.current_leader = "player"]
    : h \in call_opponent(player_play_card(g, i)) }

\* GamePlay.player_follow
player_follow(g, i) == [player_play_card(g, i) EXCEPT !.trick_ready = TRUE]

\* handle_event: the suit the human has to follow (second phase only)
human_allowed_suit(g) ==
  IF ~g.first_phase /\ g.current_leader = "computer" /\ Truthy(g.computer_played)
  THEN SuitOf[g.computer_played] ELSE None

\* handle_event: whether the card at index i is accepted as a move
valid_move(g, i) ==
  LET allowed_suit == human_allowed_suit(g)
      player_has_follow == Truthy(allowed_suit) /\ OfSuit(g.player_hand, allowed_suit) # <<>>
      player_has_trump == Truthy(allowed_suit) /\ OfSuit(g.player_hand, g.trump_suit) # <<>>
      suit == SuitOf[g.player_hand[i]]
  IN IF ~g.first_phase /\ Truthy(allowed_suit)
     THEN IF player_has_follow /\ player_has_trump
          THEN suit = allowed_suit \/ suit = g.trump_suit
          ELSE IF player_has_follow THEN suit = allowed_suit
          ELSE IF player_has_trump THEN suit = g.trump_suit
          ELSE TRUE
     ELSE TRUE

\* handle_event: a click on the card at index i while a marriage is pending
marriage_click(g, i) ==
  LET selected_card == g.player_hand[i]
      suit == SuitOf[selected_card]
      partner == IF RankOf[selected_card] = "K" THEN Card("Q", suit) ELSE Card("K", suit)
  IN IF RankOf[selected_card] \notin {"K", "Q"}
        \/ suit \in g.player_marriages_announced
        \/ ~In(partner, g.player_hand)
     THEN [g EXCEPT !.marriage_pending = FALSE]
     ELSE [g EXCEPT
             !.marriage_announcement = <<selected_card, partner>>,
             !.marriage_expired = FALSE,
             !.marriage_pending = FALSE,
             !.ongoing_animation = TRUE,
             !.player_marriages_announced = @ \cup {suit},
             !.player_round_points = @ + marriage_points(suit, g.trump_suit),
             !.marriage_log = Append(@, Award("player", suit, g.trump_suit))]

\* handle_event: a click on the card at index i of the human's hand
card_click(g, i) ==
  IF g.marriage_pending THEN {marriage_click(g, i)}
  ELSE IF ~valid_move(g, i) THEN {g}
  ELSE IF g.current_leader = "player" THEN player_lead(g, i)
  ELSE {player_follow(g, i)}

\* close_game as a switch: a second click opens the stock again.
close_game_reopening(g) == [g EXCEPT !.first_phase = g.game_closed, !.game_closed = ~@]

\* GamePlay.close_game
close_game(g) == [g EXCEPT !.first_phase = FALSE, !.game_closed = TRUE]

\* GamePlay.switch_trump
switch_trump(g) ==
  LET trump9 == Card("9", g.trump_suit)
  IN IF g.current_leader # "player" THEN g
     ELSE IF In(trump9, g.player_hand)
     THEN [g EXCEPT !.player_hand = Append(Remove(@, trump9), g.trump_card),
                    !.trump_card = trump9]
     ELSE g

\* GamePlay.announce_marriage
announce_marriage(g) ==
  IF g.current_leader # "player" THEN g ELSE [g EXCEPT !.marriage_pending = TRUE]

\* GamePlay.draw, the part that changes state: the marriage announcement is
\* shown for 3000 ms and then cleared
draw(g) ==
  IF g.marriage_announcement = NoAnnouncement THEN g
  ELSE IF ~g.marriage_expired THEN [g EXCEPT !.ongoing_animation = TRUE]
  ELSE [g EXCEPT !.marriage_announcement = NoAnnouncement, !.ongoing_animation = FALSE]

\* ---------------------------------------------------------------- actions
\* The handlers run while the game screen is up and no exception has ended
\* the program; handle_event returns at once during an animation.
Running == screen = "game" /\ ~crashed
Accepting == Running /\ ~ongoing_animation

\* GamePlay.__init__, with the deck shuffled as Shuffle(k) and strategy as
\* self.opponent (gameplay.py constructs JustRandom; player.py constructs
\* the others for its strategy argument)
NewGame(k, strategy) ==
    LET d == Deal(Shuffle(k))
    IN /\ deck = d.deck
       /\ player_hand = d.player_hand
       /\ computer_hand = d.computer_hand
       /\ trump_card = d.trump_card
       /\ trump_suit = SuitOf[d.trump_card]
       /\ player_played = None /\ computer_played = None
       /\ trick_ready = FALSE /\ first_phase = TRUE /\ current_leader = "player"
       /\ player_round_points = 0 /\ computer_round_points = 0
       /\ player_tricks = 0 /\ computer_tricks = 0
       /\ player_game_points = 0 /\ computer_game_points = 0
       /\ ongoing_animation = FALSE /\ marriage_pending = FALSE
       /\ marriage_announcement = NoAnnouncement /\ marriage_expired = FALSE
       /\ player_marriages_announced = {} /\ computer_marriages_announced = {}
       /\ computer_marriage_processed = FALSE
       /\ player_won_cards = <<>> /\ computer_won_cards = <<>>
       /\ game_closed = FALSE
       /\ opponent = strategy
       /\ screen = "game" /\ crashed = FALSE /\ marriage_log = <<>> /\ ai_call = NoCall

Init ==
  /\ \E k \in 0..MaxShuffle, strategy \in Strategies : NewGame(k, strategy)
  /\ input = NoInput /\ output = NoOutput
  /\ NoSearch

\* The engine is followed while the awards of the round are within the bound.
WithinBounds(g) == Len(g.marriage_log) <= MaxAwards

\* handle_event: a mouse click on the card at index i of the human's hand
\* (with a trick ready the click is ignored)
ClickCard ==
  /\ Accepting /\ ~trick_ready
  /\ player_tricks + computer_tricks < MaxTricks
  /\ \E i \in 1..Len(player_hand) : \E g \in card_click(Self, i) : WithinBounds(g) /\ Becomes(g)

\* handle_event: a mouse click on the End Trick zone
ClickEndTrick ==
  /\ Accepting /\ trick_ready
  /\ \E k \in 0..MaxShuffle : \E g \in resolve_trick(Self, k) : WithinBounds(g) /\ Becomes(g)

\* handle_event: a mouse click on the Close button
ClickClose == Accepting /\ Becomes(close_game(Self))

\* handle_event: a mouse click on the Switch button
ClickSwitch == Accepting /\ Becomes(switch_trump(Self))

\* handle_event: a mouse click on the Marriage button
ClickMarriage == Accepting /\ Becomes(announce_marriage(Self))

\* 3000 ms have passed since self.marriage_time
MarriageTimePasses ==
  /\ Running /\ marriage_announcement # NoAnnouncement /\ ~marriage_expired
  /\ Becomes([Self EXCEPT !.marriage_expired = TRUE])

\* Game.run, one frame of the game screen: the computer leads when it is
\* the leader and has not played, then the screen is drawn
Frame ==
  /\ Running
  /\ \E g \in ( IF current_leader = "computer" /\ ~trick_ready /\ computer_played = None
                THEN computer_lead(Self) ELSE {Self} ) :
       WithinBounds(g) /\ Becomes(IF g.crashed THEN g ELSE draw(g))

Next ==
  \/ ClickCard
  \/ ClickEndTrick
  \/ ClickClose
  \/ ClickSwitch
  \/ ClickMarriage
  \/ MarriageTimePasses
  \/ Frame

Spec == Init /\ [][Next]_vars

\* ------------------------------------------- the functions called on their own
\* Cards in a hand handed to a strategy on its own.
MaxHand == 3

\* The cards those hands are made of: three suits, equal values across suits.
HandPool == {"KH", "9S", "JC", "9H", "AH", "10S", "JD", "KC"}
\* The cards the human may have led against them.
LeaderCards == {"QH", "10C", "JS", "QD"}

\* The hands of n cards: lists without repetition, in every order.
RECURSIVE HandsOfLen(_)
HandsOfLen(n) ==
  IF n = 0 THEN {<<>>}
  ELSE {Append(x[1], x[2]) : x \in {y \in HandsOfLen(n - 1) \X HandPool : ~In(y[2], y[1])}}

Hands == UNION {HandsOfLen(n) : n \in 0..MaxHand}

\* The snapshot a strategy is handed when it is called on its own: the keys
\* the strategies read.
Snapshot(hand, allowed_suit, trump, leader_card) ==
  [ allowed_suit |-> allowed_suit, trump_suit |-> trump,
    leader_card |-> leader_card, opponent_hand |-> hand ]

PlayInput(hand, allowed_suit, trump, leader_card) ==
  [ kind |-> "play", hand |-> hand,
    game_state |-> Snapshot(hand, allowed_suit, trump, leader_card) ]

TrickInput(player_card, computer_card, leader_is, trump) ==
  [ kind |-> "trick", player_card |-> player_card, computer_card |-> computer_card,
    leader_is |-> leader_is, trump |-> trump ]

\* The hands of the two worked examples: following against the Ace of
\* hearts with spades trump, and leading from six cards of six values.
FollowExample == PlayInput(<<"KH", "9S", "JC">>, "H", "S", "AH")
LeadExample == PlayInput(<<"AH", "9C", "10D", "JS", "KC", "QH">>, None, "S", None)

PlayInputs ==
  {PlayInput(hand, None, trump, None) : hand \in Hands, trump \in Suits}
  \cup {PlayInput(hand, suit, trump, None) : hand \in Hands, suit \in Suits, trump \in Suits}
  \cup {PlayInput(hand, SuitOf[card], trump, card) :
          hand \in Hands, card \in LeaderCards, trump \in Suits}
  \cup {FollowExample, LeadExample}

\* Cards of the human's hand the AI does not know, at most.
MaxUnknown == 2

\* A state of the search: the keys the search reads and writes.
SearchState(opponent_hand, hand_of_player, remaining_deck, trump, suit, played_by_player, played_by_opponent, leader, known_of_player) ==
  [ opponent_hand |-> opponent_hand, player_hand |-> hand_of_player,
    remaining_deck |-> remaining_deck, trump_card |-> trump, trump_suit |-> suit,
    player_played |-> played_by_player, opponent_played |-> played_by_opponent,
    allowed_suit |-> IF played_by_player # None THEN SuitOf[played_by_player]
                     ELSE IF played_by_opponent # None THEN SuitOf[played_by_opponent]
                     ELSE None,
    leader_card |-> IF played_by_player # None THEN played_by_player ELSE played_by_opponent,
    current_leader |-> leader,
    player_round_points |-> 0, opponent_round_points |-> 0,
    player_known_cards |-> known_of_player ]

\* Positions of a round dealt from Shuffle(k), with the first n cards of the
\* human's hand known to the AI: the opening with nothing played, with the
\* human's first card led, with the AI's first card led; the second trick
\* (the first cards of both hands gone, a card drawn by each); and the last
\* tricks, the stock and the trump card gone, h cards in each hand.
Positions(k) ==
  LET d == Deal(Shuffle(k))
      suit == SuitOf[d.trump_card]
      P == d.player_hand
      C == d.computer_hand
      known_of(hand) == {SubSeq(hand, 1, n) : n \in {m \in 0..Len(hand) : Len(hand) - m <= MaxUnknown}}
  IN {SearchState(C, P, d.deck, d.trump_card, suit, None, None, leader, kn) :
        leader \in {"player", "opponent"}, kn \in known_of(P)}
     \cup {SearchState(C, Tail(P), d.deck, d.trump_card, suit, P[1], None, "player", kn) :
             kn \in known_of(Tail(P))}
     \cup {SearchState(Tail(C), P, d.deck, d.trump_card, suit, None, C[1], "opponent", kn) :
             kn \in known_of(P)}
     \cup {SearchState(Append(Tail(C), d.deck[11]), Append(Tail(P), d.deck[10]),
                       SubSeq(d.deck, 1, 9), d.trump_card, suit, None, None, "player", kn) :
             kn \in known_of(Tail(P))}
     \cup UNION { {SearchState(SubSeq(C, 1, h), SubSeq(P, 1, h), <<>>, None, suit, None, None,
                                "opponent", kn) : kn \in known_of(SubSeq(P, 1, h))}
                  : h \in 1..2 }

SampleInputs ==
  {[kind |-> "sample", state |-> st] : st \in UNION {Positions(k) : k \in 0..MaxShuffle}}

TrickInputs ==
  {TrickInput(x[1], x[2], leader_is, trump) :
     x \in {y \in Cards \X Cards : y[1] # y[2]},
     leader_is \in {"player", "computer"}, trump \in Suits}

\* ------------------------------------------------------------- AIPlayer
\* AIPlayer.switch_trump(current_trump, trump9): the AI player afterwards
AIPlayer_switch_trump(self, current_trump, trump9) ==
  IF In(trump9, self.hand)
  THEN [self EXCEPT !.hand = Append(Remove(@, trump9), current_trump)]
  ELSE self

\* AIPlayer.play_card, the check for a marriage: the first suit of
\* ["H", "D", "C", "S"] with King and Queen in hand and not yet announced
AIPlayer_marriage(self) ==
  LET found == { i \in 1..4 : /\ In(Card("K", suits[i]), self.hand)
                              /\ In(Card("Q", suits[i]), self.hand)
                              /\ suits[i] \notin self.marriages_announced }
  IN IF found = {} THEN self
     ELSE LET first == CHOOSE i \in found : \A j \in found : i <= j
          IN [self EXCEPT !.marriages_announced = @ \cup {suits[first]}]

\* AIPlayer.play_card, the check for a trump switch
AIPlayer_switch(self, game_state) ==
  LET trump9 == Card("9", Get(game_state, "trump_suit"))
  IN IF Get(game_state, "current_leader") = "opponent" /\ In(trump9, self.hand)
     THEN AIPlayer_switch_trump(self, Get(game_state, "trump_card"), trump9)
     ELSE self

\* AIPlayer.play_card(game_state): the AI player afterwards and the card
\* returned, for every outcome of self.ai_logic.play(game_state, self.hand).
\* game_state is only read.
AIPlayer_play_card(self, game_state) ==
  LET married == AIPlayer_marriage(self)
      switched == AIPlayer_switch(married, game_state)
  IN { [ self |-> [switched EXCEPT !.hand = o.hand, !.played_card = o.ret],
         ret |-> o.ret, switched |-> (switched.hand # married.hand),
         game_state |-> game_state ]
       : o \in opponent_play(self.strategy, game_state, switched.hand) }

\* AIPlayer(strategy) with the cards of hand: Player.__init__
AIPlayer(strategy, hand) ==
  [ strategy |-> strategy, hand |-> hand, marriages_announced |-> {}, played_card |-> None ]

\* The states AIPlayer.play_card is called on: the opening of a round dealt
\* from Shuffle(k), with the AI's cards as dealt or with its first card
\* exchanged for the 9 of trumps wherever that was dealt, and the AI or the
\* human leading (the engine names the AI "computer", the search "opponent").
AIPlayerStates(k) ==
  LET d == Deal(Shuffle(k))
      suit == SuitOf[d.trump_card]
      trump9 == Card("9", suit)
      first == d.computer_hand[1]
      swap(c) == IF c = trump9 THEN first ELSE IF c = first THEN trump9 ELSE c
      swapped(cards) == [i \in 1..Len(cards) |-> swap(cards[i])]
      deals == {d} \cup ( IF d.trump_card = trump9 THEN {}
                          ELSE {[d EXCEPT !.player_hand = swapped(@),
                                          !.computer_hand = swapped(@),
                                          !.deck = swapped(@)]} )
      state(x, leader) ==
        [ player_played |-> IF leader = "player" THEN x.player_hand[1] ELSE None,
          player_round_points |-> 0, computer_round_points |-> 0,
          remaining_deck |-> x.deck, trump_card |-> x.trump_card, trump_suit |-> suit,
          computer_hand |-> x.computer_hand,
          player_hand |-> IF leader = "player" THEN Tail(x.player_hand) ELSE x.player_hand,
          first_phase |-> TRUE, current_leader |-> leader,
          allowed_suit |-> IF leader = "player" THEN SuitOf[x.player_hand[1]] ELSE None ]
  IN { state(x, leader) : x \in deals, leader \in {"player", "computer", "opponent"} }

AIPlayerInputs ==
  { [kind |-> "aiplayer", game_state |-> st, hand |-> st.computer_hand, strategy |-> strategy] :
      st \in UNION {AIPlayerStates(k) : k \in 0..MaxShuffle},
      strategy \in {"JustRandom", "TrickBasedGreedy"} }

\* ------------------------------------------------------- the end of a round
\* The engines check_round_end is called on: the stock and the trump card
\* gone, both hands empty or one card left in one of them, the round points,
\* the tricks and the game points of both sides and game_closed as given.
RoundEndInputs ==
  { [ kind |-> "round_end", k |-> k,
      g |-> [Self EXCEPT
               !.deck = <<>>, !.trump_card = None, !.first_phase = FALSE,
               !.player_hand = hands[1], !.computer_hand = hands[2],
               !.player_round_points = points[1], !.computer_round_points = points[2],
               !.player_tricks = tricks[1], !.computer_tricks = tricks[2],
               !.player_game_points = games[1], !.computer_game_points = games[2],
               !.current_leader = IF tricks[1] > 0 THEN "player" ELSE "computer",
               !.game_closed = closed] ] :
      k \in 0..MaxShuffle,
      hands \in {<<<<>>, <<>>>>, <<<<"KH">>, <<>>>>, <<<<>>, <<"9S">>>>},
      points \in {<<66, 54>>, <<54, 66>>, <<98, 32>>, <<32, 98>>, <<130, 0>>, <<0, 130>>,
                  <<60, 60>>, <<75, 75>>, <<65, 45>>, <<45, 65>>},
      tricks \in {<<6, 6>>, <<12, 0>>, <<0, 12>>},
      games \in {0, 8, 9, 10} \X {0, 8, 9, 10},
      closed \in BOOLEAN }

\* The engine stands still while a function is called, once, on its own.
InitPlay ==
  /\ NewGame(0, "JustRandom")
  /\ input \in PlayInputs \cup TrickInputs \cup SampleInputs \cup AIPlayerInputs
                \cup RoundEndInputs
  /\ output = NoOutput
  /\ NoSearch

Returned(fn, o) ==
  [fn |-> fn, ret |-> o.ret, valid_moves |-> o.valid_moves, hand_after |-> o.hand]

\* JustRandom().play(game_state, hand)
CallJustRandom ==
  /\ input.kind = "play" /\ output.fn = "none"
  /\ \E o \in JustRandom_play(input.game_state, input.hand) :
       output' = Returned("JustRandom.play", o)
  /\ UNCHANGED <<engine_vars, input, stack, dicts, lists, returned, rng>>

\* TrickBasedGreedy().play(game_state, hand)
CallTrickBasedGreedy ==
  /\ input.kind = "play" /\ output.fn = "none"
  /\ \E o \in TrickBasedGreedy_play(input.game_state, input.hand) :
       output' = Returned("TrickBasedGreedy.play", o)
  /\ UNCHANGED <<engine_vars, input, stack, dicts, lists, returned, rng>>

\* Expectiminimax().get_valid_moves(hand, allowed_suit, trump_suit)
CallGetValidMoves ==
  /\ input.kind = "play" /\ output.fn = "none"
  /\ LET moves == Expectiminimax_get_valid_moves(
                    input.hand, input.game_state.allowed_suit, input.game_state.trump_suit)
     IN output' = Returned("Expectiminimax.get_valid_moves",
                           Outcome(None, input.hand, moves))
  /\ UNCHANGED <<engine_vars, input, stack, dicts, lists, returned, rng>>

\* MCTS()._get_valid_moves(state)
CallMCTSGetValidMoves ==
  /\ input.kind = "play" /\ output.fn = "none"
  /\ output' = Returned("MCTS._get_valid_moves",
                        Outcome(None, input.hand, MCTS_get_valid_moves(input.game_state)))
  /\ UNCHANGED <<engine_vars, input, stack, dicts, lists, returned, rng>>

\* determine_trick_winner(player_card, computer_card, trump_suit, leader)
CallDetermineTrickWinner ==
  /\ input.kind = "trick" /\ output.fn = "none"
  /\ output' = [ fn |-> "determine_trick_winner",
                 ret |-> determine_trick_winner(input.player_card, input.computer_card,
                                                input.leader_is, input.trump) ]
  /\ UNCHANGED <<engine_vars, input, stack, dicts, lists, returned, rng>>

\* resolve_trick_with_chance: the winner of the trick
trick_winner(D) ==
  LET pcard == D.player_played
      ocard == D.opponent_played
      trump == D.trump_suit
  IN IF SuitOf[pcard] = trump /\ SuitOf[ocard] # trump THEN "player"
     ELSE IF SuitOf[ocard] = trump /\ SuitOf[pcard] # trump THEN "opponent"
     ELSE IF SuitOf[pcard] = SuitOf[ocard]
          THEN IF Value(pcard) >= Value(ocard) THEN "player" ELSE "opponent"
     ELSE IF D.current_leader = "player" THEN "player" ELSE "opponent"

\* The three deciders of a trick called on the same two cards: the engine's,
\* the search's on a state with the cards in its play slots, and
\* TrickBasedGreedy's on the follower's card against the leader's; and the
\* engine's once more with the same card led by the other side.
CallTrickDeciders ==
  /\ input.kind = "trick" /\ output.fn = "none"
  /\ LET leader_card == IF input.leader_is = "player" THEN input.player_card
                        ELSE input.computer_card
         follower_card == IF input.leader_is = "player" THEN input.computer_card
                          ELSE input.player_card
     IN output' =
          [ fn |-> "trick_deciders",
            engine |-> determine_trick_winner(input.player_card, input.computer_card,
                                              input.leader_is, input.trump),
            search |-> trick_winner([ player_played |-> input.player_card,
                                      opponent_played |-> input.computer_card,
                                      trump_suit |-> input.trump,
                                      current_leader |-> input.leader_is ]),
            greedy |-> card_wins(follower_card, leader_card, input.trump, SuitOf[leader_card]),
            relabelled |-> determine_trick_winner(
                             input.computer_card, input.player_card,
                             IF input.leader_is = "player" THEN "computer" ELSE "player",
                             input.trump) ]
  /\ UNCHANGED <<engine_vars, input, stack, dicts, lists, returned, rng>>

\* Expectiminimax().sample_possible_player_hand(state, len(state["player_hand"]))
CallSamplePossiblePlayerHand ==
  /\ input.kind = "sample" /\ output.fn = "none"
  /\ \E sampled \in sample_possible_player_hand(input.state, Len(input.state.player_hand)) :
       output' = [fn |-> "Expectiminimax.sample_possible_player_hand", ret |-> sampled]
  /\ UNCHANGED <<engine_vars, input, stack, dicts, lists, returned, rng>>

\* MCTS()._sample_possible_player_hand(state)
CallMCTSSample ==
  /\ input.kind = "sample" /\ output.fn = "none"
  /\ \E sampled \in MCTS_sample_possible_player_hand(input.state) :
       output' = [fn |-> "MCTS._sample_possible_player_hand", ret |-> sampled]
  /\ UNCHANGED <<engine_vars, input, stack, dicts, lists, returned, rng>>

\* AIPlayer(strategy).play_card(game_state), the AI holding input.hand
CallAIPlayerPlayCard ==
  /\ input.kind = "aiplayer" /\ output.fn = "none"
  /\ \E o \in AIPlayer_play_card(AIPlayer(input.strategy, input.hand), input.game_state) :
       output' = [ fn |-> "AIPlayer.play_card", ret |-> o.ret, self |-> o.self,
                   switched |-> o.switched, game_state |-> o.game_state ]
  /\ UNCHANGED <<engine_vars, input, stack, dicts, lists, returned, rng>>

\* GamePlay.check_round_end(), a round that starts then dealt from Shuffle(k)
CallCheckRoundEnd ==
  /\ input.kind = "round_end" /\ output.fn = "none"
  /\ output' = [fn |-> "check_round_end", g |-> check_round_end(input.g, input.k)]
  /\ UNCHANGED <<engine_vars, input, stack, dicts, lists, returned, rng>>

\* strategy.should_close_game(game_state, hand), for each of the strategies
CallShouldCloseGame ==
  /\ input.kind = "play" /\ output.fn = "none"
  /\ \E strategy \in Strategies :
       output' = [ fn |-> "should_close_game", strategy |-> strategy,
                   ret |-> should_close_game(strategy, input.game_state, input.hand) ]
  /\ UNCHANGED <<engine_vars, input, stack, dicts, lists, returned, rng>>

NextPlay ==
  \/ CallSamplePossiblePlayerHand
  \/ CallMCTSSample
  \/ CallJustRandom
  \/ CallTrickBasedGreedy
  \/ CallGetValidMoves
  \/ CallMCTSGetValidMoves
  \/ CallDetermineTrickWinner
  \/ CallAIPlayerPlayCard
  \/ CallCheckRoundEnd
  \/ CallShouldCloseGame
  \/ CallTrickDeciders

SpecPlay == InitPlay /\ [][NextPlay]_vars

\* ------------------------------------------------- Expectiminimax, the search
\* Expectiminimax(max_depth=2, n_player_samples=5), as AIPlayer constructs it
max_depth == 2
n_player_samples == 5

\* A value of the search: float("-inf"), float("inf"), or the number n / d.
Number(n, d) == [inf |-> 0, n |-> n, d |-> d]
NegInf == [inf |-> -1, n |-> 0, d |-> 1]
PosInf == [inf |-> 1, n |-> 0, d |-> 1]
Some(v) == [some |-> TRUE, v |-> v]

\* a < b
Less(a, b) ==
  IF a.inf # b.inf THEN a.inf < b.inf
  ELSE a.inf = 0 /\ a.n * b.d < b.n * a.d
\* max(a, b), min(a, b)
Max2(a, b) == IF Less(a, b) THEN b ELSE a
Min2(a, b) == IF Less(b, a) THEN b ELSE a

RECURSIVE Gcd(_, _)
Gcd(a, b) == IF b = 0 THEN a ELSE Gcd(b, a % b)
Reduced(n, d) ==
  LET g == Gcd(IF n < 0 THEN 0 - n ELSE n, d)
  IN Number(n \div g, d \div g)
RECURSIVE Sum(_)
Sum(values) ==
  IF values = <<>> THEN Number(0, 1)
  ELSE LET a == values[1]
           b == Sum(Tail(values))
       IN Reduced(a.n * b.d + b.n * a.d, a.d * b.d)
\* sum(values) / len(values)
Mean(values) == LET t == Sum(values) IN Reduced(t.n, t.d * Len(values))

\* The objects alive: dictionaries and lists, each under its identity.  A
\* dictionary holds, under the keys of ListKeys, the identity of a list.
Heap == [dicts |-> dicts, lists |-> lists]
ListKeys == <<"opponent_hand", "player_hand", "remaining_deck", "player_known_cards">>

\* The identity of a new object: the first one not in use.
Fresh(used) ==
  CHOOSE n \in 1..(Cardinality(used) + 1) : n \notin used /\ \A m \in 1..(n - 1) : m \in used

\* The dictionary d with its lists written out: what the code reads of it.
Deref(h, d) ==
  LET D == h.dicts[d]
  IN [key \in DOMAIN D |-> IF In(key, ListKeys) THEN h.lists[D[key]] ELSE D[key]]

\* state[key], a list
List(h, d, key) == h.lists[h.dicts[d][key]]

\* New list objects for the lists of the dictionary value D.
RECURSIVE NewLists(_, _, _)
NewLists(ls, D, keys) ==
  IF keys = <<>> THEN [lists |-> ls, dict |-> D]
  ELSE IF Head(keys) \notin DOMAIN D THEN NewLists(ls, D, Tail(keys))
  ELSE LET id == Fresh(DOMAIN ls)
       IN NewLists((id :> D[Head(keys)]) @@ ls, [D EXCEPT ![Head(keys)] = id], Tail(keys))

\* A new dictionary object with the contents D, its lists new objects too.
New(h, D) ==
  LET made == NewLists(h.lists, D, ListKeys)
      id == Fresh(DOMAIN h.dicts)
  IN [h |-> [dicts |-> (id :> made.dict) @@ h.dicts, lists |-> made.lists], id |-> id]

\* copy.copy(state): a new dictionary that refers to the same lists.
shallow_copy(h, d) ==
  LET id == Fresh(DOMAIN h.dicts)
  IN [h |-> [h EXCEPT !.dicts = (id :> h.dicts[d]) @@ @], id |-> id]

\* copy.deepcopy(state): a new dictionary whose lists are new objects (no
\* two keys of a state refer to one list)
deepcopy(h, d) == New(h, Deref(h, d))

\* state[key] = v
SetItem(h, d, key, v) == [h EXCEPT !.dicts[d][key] = v]
\* state[key].remove(card), state[key].append(card)
ListRemove(h, d, key, card) == [h EXCEPT !.lists[h.dicts[d][key]] = Remove(@, card)]
ListAppend(h, d, key, card) == [h EXCEPT !.lists[h.dicts[d][key]] = Append(@, card)]

\* new_state["allowed_suit"] = card[1]; new_state["leader_card"] = card;
\* new_state["current_leader"] = who
Leads(h, d, card, who) ==
  SetItem(SetItem(SetItem(h, d, "allowed_suit", SuitOf[card]), d, "leader_card", card),
          d, "current_leader", who)

\* "player_known_cards" in new_state and card in new_state["player_known_cards"]:
\* new_state["player_known_cards"].remove(card)
ForgetKnown(h, d, card) ==
  IF "player_known_cards" \in DOMAIN h.dicts[d] THEN ListRemove(h, d, "player_known_cards", card)
  ELSE h

\* Expectiminimax.simulate_move: the heap afterwards and the new state
simulate_move(h, state, card, is_ai_turn) ==
  LET c == deepcopy(h, state)
      n == c.id
      h1 == IF is_ai_turn
            THEN LET a == SetItem(ListRemove(c.h, n, "opponent_hand", card),
                                  n, "opponent_played", card)
                 IN IF a.dicts[n].player_played = None THEN Leads(a, n, card, "opponent") ELSE a
            ELSE LET a == SetItem(ListRemove(c.h, n, "player_hand", card),
                                  n, "player_played", card)
                     b == ForgetKnown(a, n, card)
                 IN IF b.dicts[n].opponent_played = None THEN Leads(b, n, card, "player") ELSE b
  IN [h |-> h1, id |-> n]

\* Expectiminimax.simulate_player_move: new_state["player_hand"] becomes a
\* new list, sampled_hand.copy()
simulate_player_move(h, state, card, sampled_hand) ==
  LET c == deepcopy(h, state)
      n == c.id
      id == Fresh(DOMAIN c.h.lists)
      a == [c.h EXCEPT !.lists = (id :> sampled_hand) @@ @, !.dicts[n].player_hand = id]
      b == ForgetKnown(ListRemove(a, n, "player_hand", card), n, card)
      e == SetItem(b, n, "player_played", card)
  IN [h |-> IF e.dicts[n].opponent_played = None THEN Leads(e, n, card, "player") ELSE e,
      id |-> n]

\* Expectiminimax.is_terminal, Expectiminimax.evaluate
is_terminal(D) == Len(D.player_hand) = 0 /\ Len(D.opponent_hand) = 0
evaluate(D) == Number(D.opponent_round_points - D.player_round_points, 1)

\* resolve_trick_with_chance: new_state, the copy of the state with the trick
\* awarded and the play slots cleared
award_trick(h, state) ==
  LET D == Deref(h, state)
      winner == trick_winner(D)
      trick_points == Value(D.player_played) + Value(D.opponent_played)
      c == deepcopy(h, state)
      n == c.id
      a == IF winner = "player"
           THEN SetItem(SetItem(c.h, n, "player_round_points",
                                D.player_round_points + trick_points),
                        n, "current_leader", "player")
           ELSE SetItem(SetItem(c.h, n, "opponent_round_points",
                                D.opponent_round_points + trick_points),
                        n, "current_leader", "opponent")
      b == SetItem(SetItem(a, n, "player_played", None), n, "opponent_played", None)
  IN [h |-> SetItem(SetItem(b, n, "allowed_suit", None), n, "leader_card", None),
      id |-> n, winner |-> winner]

\* resolve_trick_with_chance: outcome_state, the copy of new_state in which
\* the winner has drawn for_winner and the loser for_loser (None: no card)
draw_outcome(h, new_state, winner, for_winner, for_loser) ==
  LET c == deepcopy(h, new_state)
      n == c.id
      winner_hand == IF winner = "player" THEN "player_hand" ELSE "opponent_hand"
      loser_hand == IF winner = "player" THEN "opponent_hand" ELSE "player_hand"
      a == ListRemove(c.h, n, "remaining_deck", for_winner)
      b == IF for_loser = None THEN a ELSE ListRemove(a, n, "remaining_deck", for_loser)
      e == ListAppend(b, n, winner_hand, for_winner)
  IN [h |-> IF for_loser = None THEN e ELSE ListAppend(e, n, loser_hand, for_loser),
      id |-> n]

\* The caller's game_state is the first dictionary made; the list passed as
\* hand is the list its "opponent_hand" refers to.
RootState == 1
HandList == 1

\* The frame of play(game_state, hand), valid_moves computed; i is the place
\* in valid_moves of the move being tried (0: none yet).
PlayFrame(h) ==
  [ fn |-> "play", at |-> "moves", state |-> RootState, seen |-> Deref(h, RootState),
    valid_moves |-> Expectiminimax_get_valid_moves(
                      h.lists[HandList], Get(h.dicts[RootState], "allowed_suit"),
                      h.dicts[RootState].trump_suit),
    i |-> 0, best_move |-> None, best_value |-> NegInf,
    values |-> <<>> ]   \* the value of each move tried so far, in order

\* The frame of expectiminimax(state, depth, is_ai_turn) on entry; seen is
\* the state as it was handed over.
NodeFrame(h, state, depth, is_ai_turn) ==
  [ fn |-> "expectiminimax", at |-> "entry", state |-> state, seen |-> Deref(h, state),
    depth |-> depth, is_ai_turn |-> is_ai_turn,
    valid_moves |-> <<>>, i |-> 0, best_value |-> NegInf,
    in_sample |-> FALSE, sampled_hand |-> <<>>, sample_worst |-> PosInf,
    sample_values |-> <<>> ]

\* The frame of resolve_trick_with_chance(state, depth, is_ai_turn) on
\* entry; k counts the draw outcomes tried.
ChanceFrame(h, state, depth, is_ai_turn) ==
  [ fn |-> "resolve_trick_with_chance", at |-> "entry", state |-> state,
    seen |-> Deref(h, state), depth |-> depth, is_ai_turn |-> is_ai_turn,
    new_state |-> 0, seen_new |-> <<>>, winner |-> None, k |-> 0, outcomes |-> <<>> ]

Top == stack[Len(stack)]
Rest == SubSeq(stack, 1, Len(stack) - 1)

\* The objects still referred to: the caller's state, the states of the
\* frames, and their lists.  Everything else is garbage.
Collect(h, frames) ==
  LET held == {RootState}
              \cup {frames[n].state : n \in 1..Len(frames)}
              \cup {frames[n].new_state :
                      n \in {m \in 1..Len(frames) : frames[m].fn = "resolve_trick_with_chance"}}
      keep == held \cap DOMAIN h.dicts
      keep_lists == UNION { {h.dicts[d][key] : key \in Range(ListKeys) \cap DOMAIN h.dicts[d]}
                            : d \in keep }
  IN [ dicts |-> [d \in keep |-> h.dicts[d]],
       lists |-> [l \in keep_lists |-> h.lists[l]] ]

\* The search goes on with these frames, this heap and this value returned.
Goto(frames, h, value) ==
  /\ stack' = frames
  /\ dicts' = Collect(h, frames).dicts
  /\ lists' = Collect(h, frames).lists
  /\ returned' = value
  /\ UNCHANGED <<engine_vars, input>>

\* return value
Return(value) == Goto(Rest, Heap, Some(value)) /\ UNCHANGED <<output, rng>>

\* A call: the caller's frame f stays below the callee's.
Call(f, callee, h) == Goto(Rest \o <<f, callee>>, h, NoValue) /\ UNCHANGED <<output, rng>>

\* The frame f goes on in place.
Continue(f, h) == Goto(Rest \o <<f>>, h, NoValue) /\ UNCHANGED <<output, rng>>

\* Positions in which the AI is asked for a card, dealt from Shuffle(k): the
\* last tricks with two cards in each hand, the AI leading; the human's
\* first card led with three cards, two cards, one card and no card left in
\* the stock; and the last tricks with both of the human's cards known to
\* the AI.
SearchPositions(k) ==
  LET d == Deal(Shuffle(k))
      suit == SuitOf[d.trump_card]
      P == d.player_hand
      C == d.computer_hand
  IN { SearchState(SubSeq(C, 1, 2), SubSeq(P, 1, 2), <<>>, None, suit, None, None,
                   "opponent", <<P[1]>>),
       SearchState(C, Tail(P), SubSeq(d.deck, 1, 3), d.trump_card, suit, P[1], None,
                   "player", Tail(P)),
       SearchState(C, Tail(P), SubSeq(d.deck, 1, 2), d.trump_card, suit, P[1], None,
                   "player", Tail(P)),
       SearchState(C, Tail(P), SubSeq(d.deck, 1, 1), d.trump_card, suit, P[1], None,
                   "player", Tail(P)),
       SearchState(SubSeq(C, 1, 2), <<P[2]>>, <<>>, None, suit, P[1], None,
                   "player", <<>>),
       SearchState(SubSeq(C, 1, 2), SubSeq(P, 1, 2), <<>>, None, suit, None, None,
                   "opponent", SubSeq(P, 1, 2)) }

SearchInputs ==
  {[kind |-> "search", state |-> st] : st \in UNION {SearchPositions(k) : k \in 0..MaxShuffle}}

\* Before play is called: the caller's game_state, and the hand it passes.
InitSearch ==
  /\ NewGame(0, "Expectiminimax")
  /\ input \in SearchInputs
  /\ output = NoOutput
  /\ stack = <<>> /\ returned = NoValue /\ rng = Unseeded
  /\ dicts = New([dicts |-> <<>>, lists |-> <<>>], input.state).h.dicts
  /\ lists = New([dicts |-> <<>>, lists |-> <<>>], input.state).h.lists

\* self.max_depth: the depth the strategy was constructed with
self_max_depth == IF "max_depth" \in DOMAIN input THEN input.max_depth ELSE max_depth

\* Expectiminimax.play is called: valid_moves = self.get_valid_moves(...)
CallPlay ==
  /\ input.kind \in {"search", "seeded"} /\ output.fn = "none" /\ stack = <<>>
  /\ Goto(<<PlayFrame(Heap)>>, Heap, NoValue)
  /\ UNCHANGED <<output, rng>>

\* play with "if value >= best_value": the last of the best moves is kept.
play_took_on_equal(f, value) ==
  IF value.some /\ ~Less(value.v, f.best_value)
  THEN [f EXCEPT !.best_value = value.v, !.best_move = f.valid_moves[f.i],
                 !.values = Append(@, value.v)]
  ELSE IF value.some THEN [f EXCEPT !.values = Append(@, value.v)]
  ELSE f

\* play, after a call has returned: if value > best_value
play_took(f, value) ==
  IF value.some /\ Less(f.best_value, value.v)
  THEN [f EXCEPT !.best_value = value.v, !.best_move = f.valid_moves[f.i],
                 !.values = Append(@, value.v)]
  ELSE IF value.some THEN [f EXCEPT !.values = Append(@, value.v)]
  ELSE f

\* play, the loop over valid_moves: the next move is simulated and its
\* value asked for
PlayNextMove ==
  /\ stack # <<>> /\ Top.fn = "play"
  /\ LET f == play_took(Top, returned)
     IN /\ f.i < Len(f.valid_moves)
        /\ LET c == simulate_move(Heap, f.state, f.valid_moves[f.i + 1], TRUE)
               D == c.h.dicts[c.id]
           IN Call([f EXCEPT !.i = @ + 1],
                   IF Truthy(D.player_played) /\ Truthy(D.opponent_played)
                   THEN ChanceFrame(c.h, c.id, self_max_depth, None)
                   ELSE NodeFrame(c.h, c.id, self_max_depth - 1, FALSE),
                   c.h)

\* play, after the loop: best_move, or random.choice(valid_moves)
PlayReturn ==
  /\ stack # <<>> /\ Top.fn = "play"
  /\ LET f == play_took(Top, returned)
     IN /\ f.i = Len(f.valid_moves)
        /\ \E o \in ( IF Truthy(f.best_move) THEN {[ret |-> f.best_move, rng |-> rng]}
                      ELSE IF f.valid_moves = <<>> THEN {[ret |-> Raised, rng |-> rng]}
                      ELSE random_choice(rng, f.valid_moves) ) :
             /\ output' = [fn |-> "Expectiminimax.play", ret |-> o.ret,
                           value |-> f.best_value, valid_moves |-> f.valid_moves,
                           values |-> f.values, before |-> output]
             /\ rng' = o.rng
        /\ Goto(<<>>, Heap, NoValue)

\* expectiminimax, on entry
Expectiminimax ==
  /\ stack # <<>> /\ Top.fn = "expectiminimax" /\ Top.at = "entry"
  /\ LET f == Top
         D == Deref(Heap, f.state)
         valid_moves == Expectiminimax_get_valid_moves(
                          D.opponent_hand, Get(D, "allowed_suit"), D.trump_suit)
     IN IF f.depth = 0 \/ is_terminal(D) THEN Return(evaluate(D))
        ELSE IF Truthy(D.player_played) /\ Truthy(D.opponent_played)
        THEN Call([f EXCEPT !.at = "tail"],
                  ChanceFrame(Heap, f.state, f.depth, f.is_ai_turn), Heap)
        ELSE IF f.is_ai_turn
        THEN IF valid_moves = <<>> THEN Return(evaluate(D))
             ELSE Continue([f EXCEPT !.at = "max", !.valid_moves = valid_moves], Heap)
        ELSE Continue([f EXCEPT !.at = "min"], Heap)

\* expectiminimax, the AI's turn: the loop over valid_moves
MaxNode ==
  /\ stack # <<>> /\ Top.fn = "expectiminimax" /\ Top.at = "max"
  /\ LET f == IF returned.some THEN [Top EXCEPT !.best_value = Max2(@, returned.v)] ELSE Top
     IN IF f.i < Len(f.valid_moves)
        THEN LET c == simulate_move(Heap, f.state, f.valid_moves[f.i + 1], TRUE)
             IN Call([f EXCEPT !.i = @ + 1], NodeFrame(c.h, c.id, f.depth - 1, FALSE), c.h)
        ELSE Return(f.best_value)

\* expectiminimax, the human's turn: a hand is sampled
SampleHand ==
  /\ stack # <<>> /\ Top.fn = "expectiminimax" /\ Top.at = "min" /\ ~Top.in_sample
  /\ Len(Top.sample_values) < n_player_samples
  /\ LET f == Top
         D == Deref(Heap, f.state)
     IN \E o \in sample_hand(rng, D, Len(D.player_hand)) :
          LET sampled_hand == o.ret
              valid_moves == Expectiminimax_get_valid_moves(
                               sampled_hand, Get(D, "allowed_suit"), D.trump_suit)
          IN /\ rng' = o.rng
             /\ UNCHANGED output
             /\ IF valid_moves = <<>>
                THEN Goto(Rest \o <<[f EXCEPT !.sample_values = Append(@, evaluate(D))]>>,
                          Heap, NoValue)
                ELSE Goto(Rest \o <<[f EXCEPT !.in_sample = TRUE,
                                              !.sampled_hand = sampled_hand,
                                              !.valid_moves = valid_moves, !.i = 0,
                                              !.sample_worst = PosInf]>>, Heap, NoValue)

\* expectiminimax, the human's turn: the loop over the valid moves of the
\* sampled hand; after it the sample's locals are dead
MinNode ==
  /\ stack # <<>> /\ Top.fn = "expectiminimax" /\ Top.at = "min" /\ Top.in_sample
  /\ LET f == IF returned.some THEN [Top EXCEPT !.sample_worst = Min2(@, returned.v)] ELSE Top
     IN IF f.i < Len(f.valid_moves)
        THEN LET c == simulate_player_move(Heap, f.state, f.valid_moves[f.i + 1],
                                           f.sampled_hand)
             IN Call([f EXCEPT !.i = @ + 1], NodeFrame(c.h, c.id, f.depth - 1, TRUE), c.h)
        ELSE Continue([f EXCEPT !.in_sample = FALSE,
                                !.sample_values = Append(@, f.sample_worst),
                                !.sampled_hand = <<>>, !.valid_moves = <<>>, !.i = 0,
                                !.sample_worst = PosInf], Heap)

\* expectiminimax, the human's turn: the mean of the samples
MinReturn ==
  /\ stack # <<>> /\ Top.fn = "expectiminimax" /\ Top.at = "min" /\ ~Top.in_sample
  /\ Len(Top.sample_values) >= n_player_samples
  /\ Return(IF Top.sample_values # <<>> THEN Mean(Top.sample_values)
            ELSE evaluate(Deref(Heap, Top.state)))

\* The draw outcomes without the test "if i == j: continue".
OutcomeCards_any_pair(stock, k) ==
  LET n == Len(stock)
  IN [for_winner |-> stock[((k - 1) \div (n - 1)) + 1], for_loser |-> stock[((k - 1) % (n - 1)) + 1]]

\* The cards of draw outcome k of a stock of n >= 2 cards, in the order of
\* "for i in range(n): for j in range(n): if i == j: continue".
OutcomeCards(stock, k) ==
  LET n == Len(stock)
      i == ((k - 1) \div (n - 1)) + 1
      r == ((k - 1) % (n - 1)) + 1
      j == IF r >= i THEN r + 1 ELSE r
  IN [for_winner |-> stock[i], for_loser |-> stock[j]]

\* resolve_trick_with_chance, up to the draw
ResolveTrick ==
  /\ stack # <<>> /\ Top.fn = "resolve_trick_with_chance" /\ Top.at = "entry"
  /\ LET a == award_trick(Heap, Top.state)
         f == [Top EXCEPT !.new_state = a.id, !.seen_new = Deref(a.h, a.id),
                          !.winner = a.winner]
         stock == List(a.h, a.id, "remaining_deck")
         next_is_ai == a.winner = "opponent"
     IN IF Len(stock) >= 2 THEN Continue([f EXCEPT !.at = "outcomes"], a.h)
        ELSE IF Len(stock) = 1
        THEN LET o == draw_outcome(a.h, a.id, a.winner, stock[1], None)
             IN Call([f EXCEPT !.at = "tail"],
                     NodeFrame(o.h, o.id, f.depth - 1, next_is_ai), o.h)
        ELSE Call([f EXCEPT !.at = "tail"],
                  NodeFrame(a.h, a.id, f.depth - 1, next_is_ai), a.h)

\* resolve_trick_with_chance, the loop over the draw outcomes; stock is
\* new_state["remaining_deck"] itself, read as it is now
DrawOutcome ==
  /\ stack # <<>> /\ Top.fn = "resolve_trick_with_chance" /\ Top.at = "outcomes"
  /\ LET f == IF returned.some THEN [Top EXCEPT !.outcomes = Append(@, returned.v)] ELSE Top
         stock == List(Heap, f.new_state, "remaining_deck")
     IN IF f.k < Len(stock) * (Len(stock) - 1)
        THEN LET cards == OutcomeCards(stock, f.k + 1)
                 o == draw_outcome(Heap, f.new_state, f.winner,
                                   cards.for_winner, cards.for_loser)
             IN Call([f EXCEPT !.k = @ + 1],
                     NodeFrame(o.h, o.id, f.depth - 1, f.winner = "opponent"), o.h)
        ELSE Return(IF f.outcomes # <<>> THEN Mean(f.outcomes)
                    ELSE evaluate(Deref(Heap, f.new_state)))

\* return self.expectiminimax(...), return self.resolve_trick_with_chance(...):
\* the callee's value is the caller's
TailReturn ==
  /\ stack # <<>> /\ Top.at = "tail" /\ returned.some
  /\ Goto(Rest, Heap, returned)
  /\ UNCHANGED <<output, rng>>

NextSearch ==
  \/ CallPlay
  \/ PlayNextMove
  \/ PlayReturn
  \/ Expectiminimax
  \/ MaxNode
  \/ SampleHand
  \/ MinNode
  \/ MinReturn
  \/ ResolveTrick
  \/ DrawOutcome
  \/ TailReturn

SpecSearch == InitSearch /\ [][NextSearch]_vars

\* ------------------------------------------------- the search, twice, seeded
\* The depths the strategy is constructed with, and the seeds given to the
\* random module before a call.
MaxDepth == 3
MaxSeed == 1

\* The states that differ from st only in which cards the human holds beyond
\* the known ones: the hand itself, and the known cards with the first and
\* with the last cards of the pool the AI cannot tell apart.
Twins(st) ==
  LET pool == unknown_cards(st)
      kn == st.player_known_cards
      m == Len(st.player_hand) - Len(kn)
  IN { [st EXCEPT !.player_hand = hand] :
         hand \in { st.player_hand,
                    kn \o SubSeq(pool, 1, m),
                    kn \o SubSeq(pool, Len(pool) - m + 1, Len(pool)) } }

\* The position of a round dealt from Shuffle(k) in which the AI leads the
\* last two tricks, the first n cards of the human's hand known.
LastTricks(k, n) ==
  LET d == Deal(Shuffle(k))
      P == d.player_hand
      C == d.computer_hand
  IN SearchState(SubSeq(C, 1, 2), SubSeq(P, 1, 2), <<>>, None, SuitOf[d.trump_card],
                 None, None, "opponent", SubSeq(P, 1, n))

\* The position of a round dealt from Shuffle(k) in which the AI leads the
\* last trick: one card in each hand, the stock empty.
LastTrick(k) ==
  LET d == Deal(Shuffle(k))
  IN SearchState(SubSeq(d.computer_hand, 1, 1), SubSeq(d.player_hand, 1, 1), <<>>, None,
                 SuitOf[d.trump_card], None, None, "opponent", <<>>)

\* The human's first card led, three cards in the stock, no card known.
FirstTrick(k) ==
  LET d == Deal(Shuffle(k))
  IN SearchState(d.computer_hand, Tail(d.player_hand), SubSeq(d.deck, 1, 3), d.trump_card,
                 SuitOf[d.trump_card], d.player_hand[1], None, "player", <<>>)

\* random.seed(seed); Expectiminimax(max_depth, 5).play(state, hand); then
\* random.seed(seed) and play again, on twin.
SeededCalls(st, depths) ==
  UNION { {[kind |-> "seeded", state |-> st, twin |-> tw, seed |-> seed, max_depth |-> depth] :
             seed \in 0..MaxSeed, depth \in depths}
          : tw \in Twins(st) }

SeededInputs ==
  UNION { SeededCalls(LastTricks(k, 0), 0..MaxDepth)
          \cup SeededCalls(LastTricks(k, 1), 1..MaxDepth)
          \cup SeededCalls(FirstTrick(k), {max_depth})
          \cup SeededCalls(LastTrick(k), {max_depth, MaxDepth})
          : k \in 0..MaxShuffle }

\* ------------------------------------------------------------ MCTS.play
\* MCTS(num_simulations, rollout_depth=10): the rollout depth is the default;
\* the number of simulations is part of the input.
rollout_depth == 10
MaxSimulations == 4

\* state[key] = v, on a dictionary that may not have the key yet
Put(state, key, v) == (key :> v) @@ state

\* MCTS._is_terminal, MCTS._evaluate
MCTS_is_terminal(state) ==
  Len(GetOr(state, "player_hand", <<>>)) = 0 /\ Len(GetOr(state, "opponent_hand", <<>>)) = 0
MCTS_evaluate(state) ==
  GetOr(state, "opponent_round_points", 0) - GetOr(state, "player_round_points", 0)

\* A move that also awards the value of the card to the side that plays it.
MCTS_simulate_move_scoring(state, move, current_turn) ==
  LET hand_key == IF current_turn THEN "opponent_hand" ELSE "player_hand"
      played_key == IF current_turn THEN "opponent_played" ELSE "player_played"
      points_key == IF current_turn THEN "opponent_round_points" ELSE "player_round_points"
      a == IF In(move, GetOr(state, hand_key, <<>>))
           THEN Put(state, hand_key, Remove(state[hand_key], move)) ELSE state
  IN Put(Put(a, played_key, move), points_key, GetOr(state, points_key, 0) + Value(move))

\* MCTS._simulate_move: the copy of the state with the move applied
MCTS_simulate_move(state, move, current_turn) ==
  LET hand_key == IF current_turn THEN "opponent_hand" ELSE "player_hand"
      played_key == IF current_turn THEN "opponent_played" ELSE "player_played"
      other_key == IF current_turn THEN "player_played" ELSE "opponent_played"
      a == IF In(move, GetOr(state, hand_key, <<>>))
           THEN Put(state, hand_key, Remove(state[hand_key], move)) ELSE state
      b == Put(a, played_key, move)
  IN IF Get(b, other_key) = None
     THEN Put(Put(Put(b, "allowed_suit", SuitOf[move]), "leader_card", move),
              "current_leader", IF current_turn THEN "opponent" ELSE "player")
     ELSE b

\* MCTS._sample_possible_player_hand with the generator g
MCTS_sample_hand(g, state) ==
  LET unknown == unknown_cards(state)
      hand_size == Len(GetOr(state, "player_hand", <<>>))
  IN IF Len(unknown) >= hand_size THEN random_sample(g, unknown, hand_size)
     ELSE {[ret |-> unknown, rng |-> g]}

\* MCTS._get_valid_moves_for_player
MCTS_get_valid_moves_for_player(g, state) ==
  { [ret |-> Expectiminimax_get_valid_moves(o.ret, Get(state, "allowed_suit"),
                                            Get(state, "trump_suit")),
     rng |-> o.rng] : o \in MCTS_sample_hand(g, state) }

\* MCTS._rollout, n steps of the loop left: the rewards it can return, each
\* with the generator afterwards
RECURSIVE rollout_from(_, _, _, _)
rollout_from(g, state, current_turn, n) ==
  IF n = 0 \/ MCTS_is_terminal(state) THEN {[ret |-> MCTS_evaluate(state), rng |-> g]}
  ELSE UNION {
         IF ms.ret = <<>> THEN {[ret |-> MCTS_evaluate(state), rng |-> ms.rng]}
         ELSE UNION { rollout_from(c.rng, MCTS_simulate_move(state, c.ret, current_turn),
                                   ~current_turn, n - 1)
                      : c \in random_choice(ms.rng, ms.ret) }
         : ms \in ( IF current_turn THEN {[ret |-> MCTS_get_valid_moves(state), rng |-> g]}
                    ELSE MCTS_get_valid_moves_for_player(g, state) ) }

\* MCTS._rollout
rollout(g, state) == rollout_from(g, state, Get(state, "current_leader") = "opponent", rollout_depth)

\* MCTS.Node(state, move, parent), its untried moves set by the caller
Node(state, move, parent, untried_moves) ==
  [ state |-> state, move |-> move, parent |-> parent, children |-> <<>>,
    wins |-> 0, visits |-> 0, untried_moves |-> untried_moves ]

\* The whole part of the square root of x.
RECURSIVE Isqrt_between(_, _, _)
Isqrt_between(x, lo, hi) ==
  IF lo = hi THEN lo
  ELSE LET mid == (lo + hi + 1) \div 2
       IN IF mid * mid <= x THEN Isqrt_between(x, mid, hi) ELSE Isqrt_between(x, lo, mid - 1)
Isqrt(x) == Isqrt_between(x, 0, 4000)

\* math.log(n) in thousandths, n = 1..12
LnMilli == <<0, 693, 1099, 1386, 1609, 1792, 1946, 2079, 2197, 2303, 2398, 2485>>

\* Node.uct_value, in thousandths: wins / visits + sqrt(2) * sqrt(log(parent.visits) / visits);
\* a node never visited has the value infinity
uct_value(nodes, i) ==
  LET node == nodes[i]
  IN IF node.visits = 0 THEN [inf |-> 1, v |-> 0]
     ELSE [inf |-> 0,
           v |-> (node.wins * 1000) \div node.visits
                 + Isqrt((2 * LnMilli[nodes[node.parent].visits] * 1000) \div node.visits)]

\* a < b for two such values
uct_less(a, b) == IF a.inf # b.inf THEN a.inf < b.inf ELSE a.inf = 0 /\ a.v < b.v

\* Node.best_child: max(self.children, key=uct_value), the first of the best
best_child(nodes, i) ==
  LET children == nodes[i].children
      j == CHOOSE j \in 1..Len(children) :
             /\ \A m \in 1..Len(children) :
                  ~uct_less(uct_value(nodes, children[j]), uct_value(nodes, children[m]))
             /\ \A m \in 1..(j - 1) :
                  uct_less(uct_value(nodes, children[m]), uct_value(nodes, children[j]))
  IN children[j]

\* MCTS.play, selection: down the tree while the node is fully expanded
RECURSIVE select(_, _, _)
select(nodes, node, state) ==
  IF ~MCTS_is_terminal(state) /\ nodes[node].untried_moves = <<>> /\ nodes[node].children # <<>>
  THEN LET child == best_child(nodes, node)
       IN select(nodes, child, MCTS_simulate_move(state, nodes[child].move, TRUE))
  ELSE [node |-> node, state |-> state]

\* MCTS.play, expansion: a random untried move becomes a new child
expand(g, nodes, node, state) ==
  IF ~MCTS_is_terminal(state) /\ nodes[node].untried_moves # <<>>
  THEN { LET new_state == MCTS_simulate_move(state, c.ret, TRUE)
             child == Len(nodes) + 1
         IN [ nodes |-> Append([nodes EXCEPT ![node].children = Append(@, child),
                                             ![node].untried_moves = Remove(@, c.ret)],
                               Node(new_state, c.ret, node, MCTS_get_valid_moves(new_state))),
              node |-> child, state |-> new_state, rng |-> c.rng ]
         : c \in random_choice(g, nodes[node].untried_moves) }
  ELSE {[nodes |-> nodes, node |-> node, state |-> state, rng |-> g]}

\* MCTS.play, backpropagation: up to the root (whose parent is 0)
RECURSIVE backpropagate(_, _, _)
backpropagate(nodes, node, reward) ==
  IF node = 0 THEN nodes
  ELSE backpropagate([nodes EXCEPT ![node].visits = @ + 1, ![node].wins = @ + reward],
                     nodes[node].parent, reward)

\* MCTS.play, one simulation: the trees it can leave, each with the generator
simulation(g, nodes, game_state) ==
  LET s == select(nodes, 1, game_state)
  IN UNION { { [nodes |-> backpropagate(e.nodes, e.node, r.ret), rng |-> r.rng]
               : r \in rollout(e.rng, e.state) }
             : e \in expand(g, nodes, s.node, s.state) }

\* The last of the most visited children.
most_visited_child_last(nodes) ==
  LET children == nodes[1].children
      j == CHOOSE j \in 1..Len(children) :
             /\ \A m \in 1..Len(children) : nodes[children[m]].visits <= nodes[children[j]].visits
             /\ \A m \in (j + 1)..Len(children) : nodes[children[m]].visits < nodes[children[j]].visits
  IN children[j]

\* max(root.children, key=lambda child: child.visits): the first of the most
\* visited children
most_visited_child(nodes) ==
  LET children == nodes[1].children
      j == CHOOSE j \in 1..Len(children) :
             /\ \A m \in 1..Len(children) : nodes[children[m]].visits <= nodes[children[j]].visits
             /\ \A m \in 1..(j - 1) : nodes[children[m]].visits < nodes[children[j]].visits
  IN children[j]

\* MCTS.play, the move returned
final_move(g, nodes, game_state) ==
  IF nodes[1].children # <<>>
  THEN {[ret |-> nodes[most_visited_child(nodes)].move, rng |-> g]}
  ELSE LET moves == MCTS_get_valid_moves(game_state)
       IN IF moves # <<>> THEN random_choice(g, moves) ELSE {[ret |-> None, rng |-> g]}

\* The frame of MCTS.play(game_state, hand), the root made
MCTSFrame(game_state) ==
  [ fn |-> "MCTS.play", at |-> "simulations", game_state |-> game_state,
    nodes |-> <<Node(game_state, None, 0, MCTS_get_valid_moves(game_state))>>, done |-> 0 ]

\* A generator that takes its first seed only: a later seeding leaves the
\* stream where the call before left it.
Seeded_once(x) == IF output.fn = "none" THEN [seeded |-> TRUE, x |-> x] ELSE rng

\* The generator of the random module after the caller has seeded it with x
\* ("with the random source fixed"): what it produces from here on is
\* determined by x.
Seeded(x) == [seeded |-> TRUE, x |-> x]

\* The position of LastTricks(k, 0) with tricks already won on both sides.
MidRound(k) ==
  [LastTricks(k, 0) EXCEPT !.player_round_points = 21, !.opponent_round_points = 34]

\* random.seed(seed); MCTS(num_simulations).play(state, hand), twice
\* The states are those of the search and the snapshots GamePlay.get_game_state
\* hands to self.opponent.play at the opening, the human or the computer leading.
MCTSInputs ==
  UNION { {[kind |-> "mcts", state |-> st, twin |-> st, seed |-> seed, num_simulations |-> n] :
             st \in {LastTricks(k, 0), LastTricks(k, 1), FirstTrick(k), MidRound(k)}
                      \cup {x \in AIPlayerStates(k) : x.current_leader \in {"player", "computer"}},
             seed \in 0..MaxSeed, n \in 0..MaxSimulations}
          : k \in 0..MaxShuffle }

\* MCTS.play is called, the first time and, seeded again, the second time
CallMCTS ==
  /\ input.kind = "mcts" /\ stack = <<>>
  /\ \/ output.fn = "none" /\ stack' = <<MCTSFrame(input.state)>>
     \/ output.fn = "MCTS.play" /\ output.before.fn = "none"
        /\ stack' = <<MCTSFrame(input.twin)>>
  /\ rng' = Seeded(input.seed)
  /\ UNCHANGED <<engine_vars, input, output, dicts, lists, returned>>

\* MCTS.play, one pass of "for _ in range(self.num_simulations)"
Simulate ==
  /\ stack # <<>> /\ Top.fn = "MCTS.play" /\ Top.done < input.num_simulations
  /\ \E o \in simulation(rng, Top.nodes, Top.game_state) :
       /\ stack' = <<[Top EXCEPT !.nodes = o.nodes, !.done = @ + 1]>>
       /\ rng' = o.rng
  /\ UNCHANGED <<engine_vars, input, output, dicts, lists, returned>>

\* MCTS.play, after the simulations
MCTSReturn ==
  /\ stack # <<>> /\ Top.fn = "MCTS.play" /\ Top.done = input.num_simulations
  /\ \E o \in final_move(rng, Top.nodes, Top.game_state) :
       /\ output' = [fn |-> "MCTS.play", ret |-> o.ret, nodes |-> Top.nodes, before |-> output]
       /\ rng' = o.rng
  /\ stack' = <<>>
  /\ UNCHANGED <<engine_vars, input, dicts, lists, returned>>

InitSeeded ==
  /\ NewGame(0, "Expectiminimax")
  /\ input \in SeededInputs \cup MCTSInputs
  /\ output = NoOutput
  /\ stack = <<>> /\ returned = NoValue /\ rng = Seeded(input.seed)
  /\ dicts = New([dicts |-> <<>>, lists |-> <<>>], input.state).h.dicts
  /\ lists = New([dicts |-> <<>>, lists |-> <<>>], input.state).h.lists

\* The first call has returned: random.seed(seed) again, and play is called
\* on the twin state.
CallPlayAgain ==
  /\ input.kind = "seeded" /\ stack = <<>>
  /\ output.fn = "Expectiminimax.play" /\ output.before.fn = "none"
  /\ LET h == New([dicts |-> <<>>, lists |-> <<>>], input.twin).h
     IN Goto(<<PlayFrame(h)>>, h, NoValue)
  /\ rng' = Seeded(input.seed)
  /\ UNCHANGED output

NextSeeded ==
  \/ CallPlay
  \/ CallPlayAgain
  \/ CallMCTS
  \/ Simulate
  \/ MCTSReturn
  \/ PlayNextMove
  \/ PlayReturn
  \/ Expectiminimax
  \/ MaxNode
  \/ SampleHand
  \/ MinNode
  \/ MinReturn
  \/ ResolveTrick
  \/ DrawOutcome
  \/ TailReturn

SpecSeeded == InitSeeded /\ [][NextSeeded]_vars

\* ------------------------------------------------------- a round played out
\* The human keeps playing and clicking End Trick; the numbers random.choice
\* hands to JustRandom come from the generator, seeded at the start.

\* The outcome g of a handler is the one the generator produces: the card
\* opponent.play has returned, if it was called, is the generator's choice
\* among the valid moves.
Drawn(g) ==
  IF g.ai_call = ai_call \/ g.ai_call.valid_moves = <<>> THEN rng' = rng
  ELSE \E o \in random_choice(rng, g.ai_call.valid_moves) :
         g.ai_call.ret = o.ret /\ rng' = o.rng

\* The handler has run with the outcome g.
Played(g) ==
  /\ WithinBounds(g) /\ Drawn(g) /\ Fields(g)
  /\ UNCHANGED <<input, output, stack, dicts, lists, returned>>

InitRound ==
  /\ \E k \in 0..MaxShuffle : NewGame(k, "JustRandom")
  /\ input \in {[kind |-> "round", seed |-> seed] : seed \in 0..MaxSeed}
  /\ output = NoOutput
  /\ stack = <<>> /\ dicts = <<>> /\ lists = <<>> /\ returned = NoValue
  /\ rng = Seeded(input.seed)

\* The human clicks a card whenever it is their turn: the first card of the
\* hand that handle_event accepts, or the last one.
HumanPlays ==
  /\ Accepting /\ ~trick_ready /\ player_played = None
  /\ current_leader = "computer" => computer_played # None
  /\ LET accepted == {i \in 1..Len(player_hand) : valid_move(Self, i)}
     IN \E i \in accepted :
          /\ (\A j \in accepted : i <= j) \/ (\A j \in accepted : j <= i)
          /\ \E g \in card_click(Self, i) : Played(g)

\* The human clicks End Trick whenever a trick is ready.
HumanEndsTrick ==
  /\ Accepting /\ trick_ready
  /\ \E k \in 0..MaxShuffle : \E g \in resolve_trick(Self, k) : Played(g)

\* 3000 ms have passed since self.marriage_time
AnnouncementTimePasses ==
  /\ Running /\ marriage_announcement # NoAnnouncement /\ ~marriage_expired
  /\ Played([Self EXCEPT !.marriage_expired = TRUE])

\* Game.run, one frame of the game screen
FramePasses ==
  /\ Running
  /\ \E g \in ( IF current_leader = "computer" /\ ~trick_ready /\ computer_played = None
                THEN computer_lead(Self) ELSE {Self} ) :
       Played(IF g.crashed THEN g ELSE draw(g))

NextRound ==
  \/ HumanPlays
  \/ HumanEndsTrick
  \/ AnnouncementTimePasses
  \/ FramePasses

\* Frames keep being drawn, the time of an announcement passes, and the human
\* does not stop playing and clicking: while one of these steps can change
\* the state, one is taken.
SpecRound == InitRound /\ [][NextRound]_vars /\ WF_vars(NextRound)

\* ------------------------------------------------------------------ claims
\* legalMoves(hand, ledSuit, trumpSuit) of the rules: the cards of the led
\* suit if the hand holds one, else the trumps if it holds one, else every
\* card of the hand; every card when no suit is led.
legalMoves(hand, led_suit, trump) ==
  LET held == Range(hand)
      following == {c \in held : SuitOf[c] = led_suit}
      trumps == {c \in held : SuitOf[c] = trump}
  IN IF led_suit = None THEN held
     ELSE IF following # {} THEN following
     ELSE IF trumps # {} THEN trumps
     ELSE held

\* The last call of opponent.play returned (it raised nothing).
AiReturned == ai_call.made /\ ai_call.ret # Raised

\* C1: for every strategy and every reachable state of the game in which
\* the AI's hand is not empty, what play(game_state, hand) returns is one
\* of legalMoves(hand, allowed_suit, trump_suit).
C1_ReturnedCardIsLegal ==
  (AiReturned /\ ai_call.hand # <<>>) =>
    ai_call.ret \in legalMoves(ai_call.hand, ai_call.game_state.allowed_suit,
                               ai_call.game_state.trump_suit)

\* C1, where it fails: MCTS plugged in, a hand of six cards, nothing returned.
C1_MctsReturnsNoCard ==
  /\ ai_call.made /\ ai_call.strategy = "MCTS"
  /\ Len(ai_call.hand) = 6 /\ ai_call.ret = None

\* A call-alone output of one of the four legal-move computations.
LegalMoveFns ==
  {"JustRandom.play", "TrickBasedGreedy.play",
   "Expectiminimax.get_valid_moves", "MCTS._get_valid_moves"}

\* The suit led in the snapshot of a play input.
LedSuit == input.game_state.allowed_suit
TrumpSuit == input.game_state.trump_suit

\* C2: the legal moves each strategy computes are the whole hand when no
\* suit is led, else exactly the cards of the led suit if the hand holds
\* one, else exactly the trumps if it holds one, else the whole hand; no
\* card twice, and never empty for a hand that is not empty.
C2_LegalMoveComputation ==
  (output.fn \in LegalMoveFns) =>
    /\ Range(output.valid_moves) = legalMoves(input.hand, LedSuit, TrumpSuit)
    /\ Cardinality(Range(output.valid_moves)) = Len(output.valid_moves)
    /\ input.hand # <<>> => output.valid_moves # <<>>

\* C2, its three steps: a hand of three with no card of the led suit, one
\* trump and two other cards, cut down to the trump.
C2_TrumpFallbackTaken ==
  /\ output.fn = "MCTS._get_valid_moves"
  /\ Len(input.hand) = 3 /\ LedSuit # None
  /\ Len(output.valid_moves) = 1
  /\ SuitOf[output.valid_moves[1]] = TrumpSuit /\ TrumpSuit # LedSuit

\* The cards of a trick input, by role.
LeaderCard == IF input.leader_is = "player" THEN input.player_card ELSE input.computer_card
FollowerCard == IF input.leader_is = "player" THEN input.computer_card ELSE input.player_card
Follower == IF input.leader_is = "player" THEN "computer" ELSE "player"

\* C3: determine_trick_winner gives the trick to the side holding the trump
\* when exactly one card is trump; otherwise to the leader when the
\* follower is off the led suit; otherwise to the higher value, the leader
\* on equal value; and to nobody but the leader or the follower.
C3_TrickWinner ==
  (output.fn = "determine_trick_winner") =>
    LET leader_trump == SuitOf[LeaderCard] = input.trump
        follower_trump == SuitOf[FollowerCard] = input.trump
    IN /\ output.ret \in {input.leader_is, Follower}
       /\ (leader_trump /\ ~follower_trump) => output.ret = input.leader_is
       /\ (follower_trump /\ ~leader_trump) => output.ret = Follower
       /\ (leader_trump = follower_trump /\ SuitOf[FollowerCard] # SuitOf[LeaderCard])
            => output.ret = input.leader_is
       /\ (leader_trump = follower_trump /\ SuitOf[FollowerCard] = SuitOf[LeaderCard])
            => output.ret = IF Value(FollowerCard) > Value(LeaderCard)
                            THEN Follower ELSE input.leader_is

\* C3, the rule of the led suit at work: neither card a trump, the follower
\* off suit with the higher value, and the trick goes to the leader.
C3_OffSuitFollowerLoses ==
  /\ output.fn = "determine_trick_winner"
  /\ SuitOf[LeaderCard] # input.trump /\ SuitOf[FollowerCard] # input.trump
  /\ SuitOf[FollowerCard] # SuitOf[LeaderCard]
  /\ Value(FollowerCard) > Value(LeaderCard)
  /\ output.ret = input.leader_is

\* C4: a card the AI has played to the trick is no longer in its hand; no
\* card is at the same time in a hand and in a play slot.
C4_PlayedCardLeftHand ==
  /\ computer_played # None => ~In(computer_played, computer_hand)
  /\ player_played # None => ~In(player_played, player_hand)

\* C4, where it fails: JustRandom has followed and the card it returned is
\* still among the six of its hand.
C4_CardStillInHand ==
  /\ opponent = "JustRandom" /\ computer_played # None
  /\ In(computer_played, computer_hand) /\ Len(computer_hand) = 6

\* C5: for every strategy and every input, the empty hand included, play
\* raises nothing and returns a card.
C5_PlayReturnsCard ==
  (output.fn \in {"JustRandom.play", "TrickBasedGreedy.play"}) => output.ret \in Cards

\* C5, where it fails: the empty hand.
C5_EmptyHandGivesNoCard ==
  /\ output.fn \in {"JustRandom.play", "TrickBasedGreedy.play"}
  /\ input.hand = <<>> /\ output.ret \in {None, Raised}

\* Whether card c, played after the led card, takes the trick, by the rule
\* the engine settles tricks with.
Beats(c, led, trump) == determine_trick_winner(led, c, "player", trump) = "computer"

\* TrickBasedGreedy.play was called on its own to follow the card led.
GreedyFollowed ==
  /\ output.fn = "TrickBasedGreedy.play"
  /\ LedSuit # None /\ input.game_state.leader_card # None
  /\ input.hand # <<>>

\* C7: TrickBasedGreedy.play following the card L: if a legal move beats L
\* it returns a legal move that beats L, of the greatest value among those
\* that do; otherwise a legal move of the least value.  Against the Ace of
\* hearts, spades trump, from [(K,H),(9,S),(J,C)] it returns (K,H).
C7_GreedyFollows ==
  GreedyFollowed =>
    LET L == input.game_state.leader_card
        legal == legalMoves(input.hand, LedSuit, TrumpSuit)
        winning == {c \in legal : Beats(c, L, TrumpSuit)}
    IN /\ output.ret \in legal
       /\ winning # {} =>
            /\ output.ret \in winning
            /\ \A c \in winning : Value(c) <= Value(output.ret)
       /\ winning = {} => \A c \in legal : Value(output.ret) <= Value(c)
       /\ input = FollowExample => output.ret = "KH"

\* C7, both branches in one hand: two hearts that beat the Queen led and one
\* that does not, and the dearer winner is returned.
C7_DearestWinnerPicked ==
  /\ GreedyFollowed
  /\ input.game_state.leader_card = "QH"
  /\ Range(input.hand) = {"9H", "KH", "AH"}
  /\ output.ret = "AH"

\* TrickBasedGreedy.play was called on its own to lead.
GreedyLed ==
  /\ output.fn = "TrickBasedGreedy.play"
  /\ LedSuit = None /\ input.hand # <<>>

\* The cards of the hand that a stable sort by value puts before hand[i].
SortsBefore(hand, i) ==
  {j \in 1..Len(hand) :
     \/ Value(hand[j]) < Value(hand[i])
     \/ Value(hand[j]) = Value(hand[i]) /\ j < i}

\* C8: TrickBasedGreedy.play leading from n >= 1 cards returns the card at
\* index floor(n/2) of the hand sorted by value, equal values in hand
\* order; from six cards of values 0,2,3,4,10,11 it returns the King.
C8_GreedyLeadsMedian ==
  GreedyLed =>
    /\ \E i \in 1..Len(input.hand) :
         /\ output.ret = input.hand[i]
         /\ Cardinality(SortsBefore(input.hand, i)) = Len(input.hand) \div 2
    /\ input = LeadExample => RankOf[output.ret] = "K"

\* C8, the stable sort at work: three cards, two of them of the value of
\* the card returned, which is the one that comes later in the hand.
C8_TieKeepsHandOrder ==
  /\ GreedyLed
  /\ input.hand = <<"9S", "9H", "KH">>
  /\ output.ret = "9H"

\* The AI has followed the human's lead in the open draw phase and play
\* returned a card.
AiFollowedInFirstPhase ==
  /\ ai_call.made /\ ai_call.ret \in Cards
  /\ ai_call.game_state.first_phase
  /\ ai_call.game_state.current_leader = "player"

\* C9: in the open draw phase an AI following the human's lead is not
\* bound to follow suit: the legal moves it chooses from are its full hand.
C9_NoSuitFollowingInFirstPhase ==
  AiFollowedInFirstPhase => Range(ai_call.valid_moves) = Range(ai_call.hand)

\* C9, where it fails: JustRandom, six cards in hand, the stock not
\* exhausted, and only the cards of the led suit to choose from.
C9_BoundToLedSuit ==
  /\ AiFollowedInFirstPhase /\ ai_call.strategy = "JustRandom"
  /\ Len(ai_call.hand) = 6 /\ Len(ai_call.game_state.remaining_deck) > 0
  /\ Len(ai_call.valid_moves) < 6
  /\ \A i \in 1..Len(ai_call.valid_moves) :
       SuitOf[ai_call.valid_moves[i]] = ai_call.game_state.allowed_suit

\* A sampler was called on its own.
Sampled ==
  output.fn \in {"Expectiminimax.sample_possible_player_hand",
                 "MCTS._sample_possible_player_hand"}

\* C10: every card of a hand returned by a sampler is outside the AI's own
\* hand, is not the trump card, is neither played card of the trick and is
\* not in the stock; and the hand holds no card twice.
C10_SampledHandIsDisjoint ==
  Sampled =>
    /\ \A i \in 1..Len(output.ret) :
         /\ ~In(output.ret[i], input.state.opponent_hand)
         /\ output.ret[i] # input.state.trump_card
         /\ output.ret[i] # input.state.player_played
         /\ output.ret[i] # input.state.opponent_played
         /\ ~In(output.ret[i], input.state.remaining_deck)
    /\ \A i, j \in 1..Len(output.ret) : i # j => output.ret[i] # output.ret[j]

\* C10, a sample that is a choice: the second trick, nine cards in the
\* stock, four cards of the human known, and two more drawn from a pool
\* that holds more than two, one of them a card the human does not hold.
C10_SampleDrawnFromLargerPool ==
  /\ output.fn = "Expectiminimax.sample_possible_player_hand"
  /\ Len(input.state.remaining_deck) = 9
  /\ Len(input.state.player_known_cards) = 4
  /\ Len(output.ret) = 6
  /\ \E i \in 5..6 : ~In(output.ret[i], input.state.player_hand)

\* The lists a dictionary refers to.
ListsOf(d) == {dicts[d][key] : key \in Range(ListKeys) \cap DOMAIN dicts[d]}

\* C6: Expectiminimax.play leaves the caller's hand and game_state as they
\* were passed in, and every state of the search is an independent copy: at
\* every step of the search the state of each frame on the stack (and the
\* new_state of each trick being resolved) is as it was when the frame got
\* it, whatever moves, sampled hands and draw outcomes were applied to the
\* states made from it; and no two states refer to one list.
C6_SearchCopiesStates ==
  input.kind = "search" =>
    /\ Deref(Heap, RootState) = input.state
    /\ lists[HandList] = input.state.opponent_hand
    /\ \A n \in 1..Len(stack) :
         /\ Deref(Heap, stack[n].state) = stack[n].seen
         /\ (stack[n].fn = "resolve_trick_with_chance" /\ stack[n].new_state # 0)
              => Deref(Heap, stack[n].new_state) = stack[n].seen_new
    /\ \A d1, d2 \in DOMAIN dicts : d1 # d2 => ListsOf(d1) \cap ListsOf(d2) = {}

\* Deep in a search: the human's move from a second sampled hand, in the
\* state of a second draw outcome, after the AI's move.
C6_MoveSampleAndDrawApplied ==
  /\ input.kind = "search" /\ Len(stack) = 4
  /\ stack[2].fn = "resolve_trick_with_chance" /\ stack[2].k >= 2
  /\ stack[3].fn = "expectiminimax" /\ stack[3].in_sample
  /\ Len(stack[3].sample_values) >= 1
  /\ stack[4].seen.player_hand # stack[3].seen.player_hand
  /\ stack[3].seen.remaining_deck # stack[2].seen_new.remaining_deck
  /\ stack[2].seen.opponent_hand # stack[1].seen.opponent_hand

\* C11: when the unknown pool holds at least k minus the number of known
\* cards of the human, sample_possible_player_hand(state, k) returns exactly
\* k cards (k the size of the human's hand, as expectiminimax asks for it).
C11_SampleHasRequestedSize ==
  output.fn = "Expectiminimax.sample_possible_player_hand" =>
    LET k == Len(input.state.player_hand)
    IN Len(unknown_cards(input.state)) >= k - Len(input.state.player_known_cards)
         => Len(output.ret) = k

\* C11, all of the human's cards known: nothing more is needed, and the
\* whole unknown pool is appended to them.
C11_WholePoolAppended ==
  /\ output.fn = "Expectiminimax.sample_possible_player_hand"
  /\ Len(input.state.player_known_cards) = Len(input.state.player_hand)
  /\ unknown_cards(input.state) # <<>>
  /\ output.ret = input.state.player_known_cards \o unknown_cards(input.state)

\* Both calls of the seeded pair have returned.
PlayedTwice ==
  /\ input.kind = "seeded" /\ stack = <<>>
  /\ output.fn = "Expectiminimax.play" /\ output.before.fn = "Expectiminimax.play"

\* C12: Expectiminimax.play does not depend on the human's true hand: called
\* with the same seed on two states that differ only in the cards the human
\* holds beyond the known ones, it returns the same card with the same
\* estimated value.
C12_TrueHandNotRead ==
  PlayedTwice =>
    /\ output.ret = output.before.ret
    /\ output.value = output.before.value

\* C12, a pair of calls in which the two hands differ and the estimate comes
\* from tricks scored in the branches of sampled hands.
C12_DifferentHandsSameEstimate ==
  /\ PlayedTwice
  /\ input.twin.player_hand # input.state.player_hand
  /\ input.max_depth = 3
  /\ output.value.inf = 0 /\ output.value.n # 0
  /\ output.value = output.before.value

\* Both calls of the pair have returned.
BothReturned ==
  /\ input.kind \in {"seeded", "mcts"} /\ stack = <<>>
  /\ output.fn \in {"Expectiminimax.play", "MCTS.play"}
  /\ output.before.fn = output.fn

C14_DepthWithinBudget ==
  \A i \in 1..Len(stack) :
    "depth" \in DOMAIN stack[i] => stack[i].depth >= 0 /\ stack[i].depth <= self_max_depth

\* C14 witness: with max_depth = 0 a node entered with a negative depth is
\* being expanded: a move of it is being searched one level further down.
C14_ExpandedBelowBudget ==
  /\ input.kind = "seeded" /\ input.max_depth = 0
  /\ \E i \in 1..Len(stack) - 1 :
       /\ stack[i].fn = "expectiminimax" /\ stack[i].depth < 0
       /\ stack[i + 1].fn = "expectiminimax" /\ stack[i + 1].depth < stack[i].depth

\* C15: a trump switch of the AI (AIPlayer.play_card calling switch_trump)
\* takes effect only when the AI is the current leader and holds the 9 of
\* trumps; afterwards the AI no longer holds the 9, the former indicator card
\* is in its hand or is the card it played, the indicator is the 9 of trumps
\* and trump_suit is unchanged; when no switch takes effect nothing but the
\* card played leaves the hand.
C15_AISwitchAsSpecified ==
  output.fn = "AIPlayer.play_card" =>
    LET before == input.game_state
        after == output.game_state
        trump9 == Card("9", before.trump_suit)
        hand == output.self.hand
    IN /\ after.trump_suit = before.trump_suit
       /\ output.switched =>
            /\ before.current_leader = "opponent" /\ In(trump9, input.hand)
            /\ ~In(trump9, hand)
            /\ In(before.trump_card, hand) \/ output.ret = before.trump_card
            /\ after.trump_card = trump9
       /\ ~output.switched =>
            /\ Range(hand) \cup {output.ret} = Range(input.hand) \cup {output.ret}
            /\ after.trump_card = before.trump_card

\* C15 witness: the AI leads, holds the 9 of trumps and has exchanged it: the
\* former indicator card is in its hand and is still the indicator.
C15_AISwitchedIndicatorKept ==
  /\ output.fn = "AIPlayer.play_card" /\ output.switched
  /\ input.game_state.current_leader = "opponent"
  /\ In(Card("9", input.game_state.trump_suit), input.hand)
  /\ In(input.game_state.trump_card, output.self.hand)
  /\ output.game_state.trump_card = input.game_state.trump_card

\* C15, the human's side: a step that changes the trump indicator is a switch
\* of the human, who is the leader and held the 9 of trumps; the 9 becomes
\* the indicator, the former indicator takes its place among the hand's cards
\* and the trump suit stays.
HumanSwitchAsSpecified ==
  [][ (trump_card' # trump_card /\ trump_card # None /\ trump_card' # None /\ deck' = deck) =>
        /\ current_leader = "player"
        /\ In(Card("9", trump_suit), player_hand)
        /\ trump_card' = Card("9", trump_suit)
        /\ player_hand' = Append(Remove(player_hand, trump_card'), trump_card)
        /\ trump_suit' = trump_suit /\ computer_hand' = computer_hand ]_vars

\* A switch of the human has taken effect.
HumanSwitched ==
  /\ trump_card # None /\ RankOf[trump_card] = "9"
  /\ \E i \in 1..Len(player_hand) : player_hand[i] # None /\ SuitOf[player_hand[i]] = trump_suit

\* C16: check_round_end changes the game points only when both hands are
\* empty and never lowers them; after it has scored a round the end-game
\* screen is called up exactly when a side has at least 11 game points, and
\* then no new round is dealt; otherwise reset_round deals a new round.
C16_GamePointsAtRoundEnd ==
  output.fn = "check_round_end" =>
    LET before == input.g
        after == output.g
        ended == before.player_hand = <<>> /\ before.computer_hand = <<>>
        reached == after.player_game_points >= 11 \/ after.computer_game_points >= 11
    IN /\ after.player_game_points >= before.player_game_points
       /\ after.computer_game_points >= before.computer_game_points
       /\ ~ended => after = before
       /\ ended =>
            /\ (after.screen = "endgame") <=> reached
            /\ reached => after.player_hand = <<>> /\ after.computer_hand = <<>>
            /\ ~reached =>
                 /\ after = reset_round(after, input.k)
                 /\ Len(after.player_hand) = 6 /\ Len(after.computer_hand) = 6
                 /\ after.player_round_points = 0 /\ after.computer_round_points = 0

\* C16 witness: a round scored with both hands empty has brought a side from
\* 10 game points to 11 or more, and the end-game screen is called up.
C16_MatchDecidedAtTarget ==
  /\ output.fn = "check_round_end"
  /\ input.g.player_hand = <<>> /\ input.g.computer_hand = <<>>
  /\ input.g.player_game_points = 10 /\ output.g.player_game_points = 11
  /\ output.g.screen = "endgame"

\* C16, on the round engine: the game points change in no step but the one
\* that resolves a trick (the only caller of check_round_end).
GamePointsOnlyAtRoundEnd ==
  [][ (player_game_points' # player_game_points \/ computer_game_points' # computer_game_points)
        => /\ trick_ready
           /\ player_game_points' >= player_game_points
           /\ computer_game_points' >= computer_game_points ]_vars

\* A trick of the round has been taken.
RoundUnderWay == Running /\ player_tricks + computer_tricks > 0
\* check_round_end has scored the round: the end-game screen is called up or
\* reset_round has dealt a new round, no trick of which is taken.
RoundScored == screen = "endgame" \/ player_tricks + computer_tricks = 0
\* The round has left what the model follows: the awards of the round have
\* reached their bound.
RoundLeftBounds == Len(marriage_log) >= MaxAwards

\* C17: if the human keeps playing a card whenever it is their turn and
\* clicks End Trick whenever a trick is ready, every round under way
\* eventually ends: both hands are empty and check_round_end scores it.
C17_RoundEventuallyEnds == RoundUnderWay ~> (RoundScored \/ RoundLeftBounds)

\* C17 witness: twelve tricks are taken, the stock is gone and the human has
\* no card left, while the computer still holds cards: check_round_end has
\* not scored the round, and the human has nothing to click.
C17_HumanOutOfCards ==
  /\ Running /\ player_tricks + computer_tricks = 12
  /\ deck = <<>> /\ trump_card = None
  /\ player_hand = <<>> /\ computer_hand # <<>>
  /\ ~trick_ready /\ ~RoundLeftBounds

\* The sum of CARD_VALUES over the cards of a pile, each entry counted.
RECURSIVE PileValue(_)
PileValue(cards) == IF cards = <<>> THEN 0 ELSE Value(Head(cards)) + PileValue(Tail(cards))
\* The marriage bonuses awarded so far in the round.
RECURSIVE Bonuses(_)
Bonuses(log) == IF log = <<>> THEN 0 ELSE Head(log).points + Bonuses(Tail(log))
\* The bonus of draw_cards for the last draw, once the trump card is drawn.
LastDrawBonus == IF deck = <<>> /\ trump_card = None THEN 10 ELSE 0
\* The cards of the two won piles, and whether an entry is there twice.
WonCards == player_won_cards \o computer_won_cards
CountedTwice == \E i, j \in 1..Len(WonCards) : i < j /\ WonCards[i] = WonCards[j]

\* C18, the accounts: the round points of both sides add up to the values of
\* the cards in the won piles, the marriage bonuses and the last-draw bonus.
RoundPointsAccounted ==
  player_round_points + computer_round_points
    = PileValue(WonCards) + Bonuses(marriage_log) + LastDrawBonus

\* C18: the round points are accounted for by the won piles and the bonuses,
\* no card is counted twice, and the trick points of a round stay within 120.
C18_EachCardCountedOnce ==
  Running => /\ RoundPointsAccounted
             /\ ~CountedTwice
             /\ PileValue(WonCards) <= 120

\* C18 witness: the computer has played a card in two tricks, the card is
\* twice in the won piles and its value is twice in the round points.
C18_CardCountedTwice ==
  /\ Running /\ RoundPointsAccounted /\ CountedTwice
  /\ \E i \in 1..Len(computer_hand) :
       Cardinality({j \in 1..Len(WonCards) : WonCards[j] = computer_hand[i]}) >= 2

\* More trick points than the 24 cards are worth have been awarded.
MoreThanAllCards == Running /\ PileValue(WonCards) > 120

\* The entries of all containers of the engine g, one after the other: the
\* stock, the trump slot, the hands, the play slots and the won piles.
Containers(g) ==
  g.deck \o (IF g.trump_card = None THEN <<>> ELSE <<g.trump_card>>)
    \o g.player_hand \o g.computer_hand
    \o (IF g.player_played = None THEN <<>> ELSE <<g.player_played>>)
    \o (IF g.computer_played = None THEN <<>> ELSE <<g.computer_played>>)
    \o g.player_won_cards \o g.computer_won_cards

\* The 24 cards are partitioned among the containers of g: every entry is a
\* card, every card is somewhere, and none is there twice.
Partitioned(g) ==
  LET all == Containers(g)
  IN /\ \A i \in 1..Len(all) : all[i] \in Cards
     /\ \A c \in Cards : \E i \in 1..Len(all) : all[i] = c
     /\ \A i, j \in 1..Len(all) : i # j => all[i] # all[j]

\* C19: in every state of a round the 24 cards are partitioned among the
\* stock, the trump slot, the hands, the play slots and the won piles, and
\* they still are after a click on the Switch button.
C19_CardsPartitioned ==
  Running => /\ Partitioned(Self)
             /\ Accepting => Partitioned(switch_trump(Self))

\* C19 witness: a trick has been resolved and the card the computer played
\* to it is in a won pile and still in the computer's hand.
C19_WonCardStillHeld ==
  /\ Running /\ player_played = None /\ computer_played = None
  /\ \E i \in 1..Len(computer_hand) : In(computer_hand[i], WonCards)

\* The human leads holding the 9 of trumps after the trump card has been
\* drawn: a click on Switch puts the empty trump slot into the hand.
SwitchTakesEmptySlot ==
  /\ Accepting /\ ~trick_ready /\ trump_card = None /\ current_leader = "player"
  /\ In(Card("9", trump_suit), player_hand)
  /\ In(None, switch_trump(Self).player_hand)

\* MCTS.play has returned; the state it was called on and the hand passed.
MctsReturned == output.fn = "MCTS.play" /\ stack = <<>>
MctsState == IF output.before.fn = "none" THEN input.state ELSE input.twin
MctsHand ==
  IF "opponent_hand" \in DOMAIN MctsState THEN MctsState.opponent_hand
  ELSE MctsState.computer_hand
\* The children of the root when MCTS.play returned, and their visit counts.
RootChildren == output.nodes[1].children
Visits(j) == output.nodes[RootChildren[j]].visits

\* The card returned is the move of the first of the most visited children.
ReturnedMostVisited ==
  \E j \in 1..Len(RootChildren) :
    /\ output.ret = output.nodes[RootChildren[j]].move
    /\ \A m \in 1..Len(RootChildren) : Visits(m) <= Visits(j)
    /\ \A m \in 1..(j - 1) : Visits(m) < Visits(j)

\* C20: MCTS.play returns the move of the first of the root's most visited
\* children; when the root has no children it returns one of the legal moves
\* of the hand.
C20_MostVisitedOrLegalMove ==
  MctsReturned =>
    IF RootChildren # <<>> THEN ReturnedMostVisited
    ELSE MctsHand # <<>> =>
           output.ret \in legalMoves(MctsHand, Get(MctsState, "allowed_suit"),
                                     Get(MctsState, "trump_suit"))

\* C20 witness: simulations have run on the snapshot of the engine, with six
\* cards in the computer's hand; the root has no children and nothing is
\* returned.
C20_NoChildNoMove ==
  /\ MctsReturned /\ input.num_simulations >= 1
  /\ "opponent_hand" \notin DOMAIN MctsState /\ Len(MctsHand) = 6
  /\ RootChildren = <<>> /\ output.ret = None

\* C20 on the states that carry the AI's hand as 'opponent_hand'.
MostVisitedOnSearchStates ==
  (MctsReturned /\ "opponent_hand" \in DOMAIN MctsState) => C20_MostVisitedOrLegalMove

\* Several children share the highest visit count and the first is returned;
\* no simulation has run and a legal move is returned.
FirstOfTiedChildren ==
  /\ MctsReturned /\ Len(RootChildren) >= 2 /\ ReturnedMostVisited
  /\ \E j, m \in 1..Len(RootChildren) : j < m /\ Visits(j) = Visits(m)
                                         /\ output.ret = output.nodes[RootChildren[j]].move
FallbackMove ==
  /\ MctsReturned /\ input.num_simulations = 0 /\ RootChildren = <<>> /\ output.ret # None

\* C21: for every strategy, every game state and every hand,
\* should_close_game returns False.
C21_NeverElectsToClose ==
  output.fn = "should_close_game" => output.ret = FALSE

\* C21 witness: each strategy has been asked with a hand of three cards and
\* a suit led; here MCTS has answered False.
C21_AskedWithFullHand ==
  /\ output.fn = "should_close_game" /\ output.strategy = "MCTS"
  /\ Len(input.hand) = 3 /\ input.game_state.allowed_suit # None
  /\ output.ret = FALSE

\* The state holds a card of the human and a card of the AI: a completed trick.
TrickComplete(D) == Truthy(D.player_played) /\ Truthy(D.opponent_played)

\* The call of expectiminimax on top of the stack has just been entered.
AtEntry == stack # <<>> /\ Top.fn = "expectiminimax" /\ Top.at = "entry"

\* C22: in the Expectiminimax search a state that holds both a human and an
\* AI played card is never statically evaluated: a call of expectiminimax
\* that returns the evaluation of the state it was entered with was entered
\* with a state whose trick is not complete.
C22_ResolvedBeforeEvaluated ==
  [][ (AtEntry /\ stack' = Rest /\ returned'.some)
        => ~TrickComplete(Deref(Heap, Top.state)) ]_vars

\* C22 witness: expectiminimax is entered with depth left and the trick
\* completed by the last card of both hands; the cards are still in the play
\* slots and the round points are those of the caller's state.
C22_LastTrickLeftUnresolved ==
  /\ AtEntry /\ Top.depth > 0
  /\ TrickComplete(Deref(Heap, Top.state))
  /\ is_terminal(Deref(Heap, Top.state))
  /\ Deref(Heap, Top.state).player_round_points = Deref(Heap, RootState).player_round_points
  /\ Deref(Heap, Top.state).opponent_round_points = Deref(Heap, RootState).opponent_round_points

\* The trick is completed exactly when the depth reaches 0, a card still in
\* each hand.
TrickCompleteAtDepthZero ==
  /\ AtEntry /\ Top.depth = 0
  /\ TrickComplete(Deref(Heap, Top.state))
  /\ ~is_terminal(Deref(Heap, Top.state))

\* With depth left and a card left in a hand the completed trick is resolved:
\* the call goes on into resolve_trick_with_chance.
ResolvedWithDepthLeft ==
  [][ (AtEntry /\ Top.depth > 0 /\ ~is_terminal(Deref(Heap, Top.state))
         /\ TrickComplete(Deref(Heap, Top.state)))
        => (stack' # <<>> /\ stack'[Len(stack')].fn = "resolve_trick_with_chance") ]_vars

\* The calls of resolve_trick_with_chance on the stack that found one card in
\* the stock and have handed the outcome state to expectiminimax.
LastCardDraws ==
  { n \in 1..(Len(stack) - 1) :
      /\ stack[n].fn = "resolve_trick_with_chance" /\ stack[n].at = "tail"
      /\ Len(stack[n].seen_new.remaining_deck) = 1 }

\* The engine with the stock, the hands and the trump card of the search
\* state D.
EngineOf(D) ==
  [Self EXCEPT !.deck = D.remaining_deck, !.player_hand = D.player_hand,
               !.computer_hand = D.opponent_hand, !.trump_card = D.trump_card]

\* The hands and the stock of the search state after are those
\* GamePlay.draw_cards leaves when the winner draws from the state before.
AsEngineDraws(before, winner, after) ==
  LET e == draw_cards(EngineOf(before), IF winner = "player" THEN "player" ELSE "computer")
  IN /\ after.player_hand = e.player_hand
     /\ after.opponent_hand = e.computer_hand
     /\ after.remaining_deck = e.deck

\* C23: when the search resolves a trick with exactly one card left in the
\* stock, both sides receive a card in the single draw outcome: the winner
\* the last stock card and the loser the trump indicator, as
\* GamePlay.draw_cards does, so that both hands grow by one card.
C23_LastDrawAsEngine ==
  \A n \in LastCardDraws :
    LET before == stack[n].seen_new
        after == stack[n + 1].seen
    IN /\ Len(after.player_hand) = Len(before.player_hand) + 1
       /\ Len(after.opponent_hand) = Len(before.opponent_hand) + 1
       /\ AsEngineDraws(before, stack[n].winner, after)

\* C23 witness: a trick was resolved with one card in the stock, the trump
\* indicator on the table and five cards in each hand; in the outcome state
\* the winner holds six cards and the loser five.
C23_LoserDrawsNothing ==
  \E n \in LastCardDraws :
    LET before == stack[n].seen_new
        after == stack[n + 1].seen
        winner_hand == IF stack[n].winner = "player" THEN "player_hand" ELSE "opponent_hand"
        loser_hand == IF stack[n].winner = "player" THEN "opponent_hand" ELSE "player_hand"
    IN /\ before.trump_card # None
       /\ Len(before.player_hand) = 5 /\ Len(before.opponent_hand) = 5
       /\ after[winner_hand] = Append(before[winner_hand], before.remaining_deck[1])
       /\ after[loser_hand] = before[loser_hand]
       /\ after.remaining_deck = <<>>

\* The winner's draw alone is as in the engine: the last stock card goes to
\* the winner's hand and the stock is empty afterwards.
WinnerDrawsLastStockCard ==
  \A n \in LastCardDraws :
    LET before == stack[n].seen_new
        after == stack[n + 1].seen
        winner_hand == IF stack[n].winner = "player" THEN "player_hand" ELSE "opponent_hand"
    IN /\ after[winner_hand] = Append(before[winner_hand], before.remaining_deck[1])
       /\ after.remaining_deck = <<>>
       /\ stack[n].k = 0

\* C24: in every interleaving of card clicks, End Trick clicks, the marriage
\* timer and computer_lead calls, trick_ready is true only when both
\* player_played and computer_played hold a card, and the human's card is on
\* the table as a following card only when the computer's card is too; so
\* resolve_trick, which End Trick calls only when trick_ready is set, never
\* runs with an empty play slot.
C24_TrickReadyWithBothCards ==
  Running =>
    /\ trick_ready => (player_played # None /\ computer_played # None)
    /\ (current_leader = "computer" /\ player_played # None) => computer_played # None

\* C24 witness: the computer (JustRandom, as GamePlay constructs it) has won
\* a trick and announced a marriage instead of leading; before the next frame
\* is drawn a click on a card is taken as the human's following card, and the
\* trick is ready with the computer's slot empty.
C24_FollowedBeforeLead ==
  /\ Running /\ opponent = "JustRandom"
  /\ current_leader = "computer" /\ marriage_announcement # NoAnnouncement
  /\ trick_ready /\ player_played # None /\ computer_played = None

\* End Trick is then clicked: resolve_trick has run with an empty play slot
\* (a TypeError in determine_trick_winner).
ResolvedWithEmptySlot ==
  /\ crashed /\ opponent = "JustRandom"
  /\ trick_ready /\ player_played # None /\ computer_played = None

\* The places in marriage_log of the bonuses awarded to side.
AwardsTo(side) == { i \in 1..Len(marriage_log) : marriage_log[i].side = side }

\* side has been awarded the bonus of no suit twice in this round.
OncePerSuit(side) ==
  \A i, j \in AwardsTo(side) : i # j => marriage_log[i].suit # marriage_log[j].suit

\* Every bonus awarded is 40 for the trump suit and 20 for another suit.
BonusBySuit ==
  \A i \in 1..Len(marriage_log) :
    marriage_log[i].points = IF marriage_log[i].suit = trump_suit THEN 40 ELSE 20

\* C25: within one round each side is awarded the marriage bonus of a given
\* suit at most once, 40 points for the trump suit and 20 for another suit,
\* however often computer_lead is invoked again for the same lead.
C25_MarriageOncePerSuit ==
  OncePerSuit("player") /\ OncePerSuit("computer") /\ BonusBySuit

\* C25 witness: the computer (JustRandom, as GamePlay constructs it) has been
\* awarded the bonus of one suit twice in a round, for one lead: it has not
\* played a card since the first announcement.
C25_ComputerAwardedTwice ==
  /\ opponent = "JustRandom" /\ Len(marriage_log) = 2
  /\ marriage_log[1].side = "computer" /\ marriage_log[2] = marriage_log[1]
  /\ current_leader = "computer" /\ computer_played = None
  /\ computer_round_points >= 2 * marriage_log[1].points

\* A bonus is awarded only to a side that holds both King and Queen of the
\* suit at that moment.
AwardedWhileHolding ==
  [][ Len(marriage_log') > Len(marriage_log) =>
        LET a == marriage_log'[Len(marriage_log')]
            hand == IF a.side = "player" THEN player_hand' ELSE computer_hand'
        IN In(Card("K", a.suit), hand) /\ In(Card("Q", a.suit), hand) ]_vars

\* The human's side alone: at most one bonus for a suit.
HumanOncePerSuit == OncePerSuit("player")

\* MCTS.play is under way: the tree built so far and the root's state.
MctsRunning == stack # <<>> /\ Top.fn = "MCTS.play"

\* C26: in MCTS.play neither the moves of the tree descent nor those of the
\* rollout change player_round_points or opponent_round_points: the state of
\* every node carries the round points of the root, and the reward added by
\* every simulation is opponent_round_points - player_round_points of the
\* root state, so that each node's wins are its visits times that difference.
C26_RewardIsRootDifference ==
  MctsRunning =>
    \A i \in 1..Len(Top.nodes) :
      /\ GetOr(Top.nodes[i].state, "player_round_points", 0)
           = GetOr(Top.game_state, "player_round_points", 0)
      /\ GetOr(Top.nodes[i].state, "opponent_round_points", 0)
           = GetOr(Top.game_state, "opponent_round_points", 0)
      /\ Top.nodes[i].wins = Top.nodes[i].visits * MCTS_evaluate(Top.game_state)

\* C26 witness: four simulations have run from a root with 34 points for the
\* AI and 21 for the human; the tree has children, cards have been played in
\* descent and rollout, and the root's wins are four times 13.
C26_FourRewardsOfThirteen ==
  /\ MctsRunning /\ Top.done = 4
  /\ MCTS_evaluate(Top.game_state) = 13
  /\ Len(Top.nodes) >= 3
  /\ Top.nodes[1].wins = 52

\* A sampler has returned a hand for input.state.
SamplerReturned ==
  output.fn \in {"Expectiminimax.sample_possible_player_hand",
                 "MCTS._sample_possible_player_hand"}

\* The cards of the human the AI has seen, and the size of the human's hand.
KnownOfPlayer == GetOr(input.state, "player_known_cards", <<>>)
SizeOfPlayerHand == Len(input.state.player_hand)

\* The hand returned by one sampler is one the other sampler can return for
\* the same state and hand size.
OtherSamplerReturnsIt ==
  /\ output.fn = "MCTS._sample_possible_player_hand"
       => output.ret \in sample_possible_player_hand(input.state, SizeOfPlayerHand)
  /\ output.fn = "Expectiminimax.sample_possible_player_hand"
       => output.ret \in MCTS_sample_possible_player_hand(input.state)

\* C27: every sampled hand contains all cards of player_known_cards when the
\* hand size is at least their number, and the sampler of MCTS and the
\* sampler of Expectiminimax return the same set of hands for the same state
\* and hand size.
C27_SamplersAgree ==
  SamplerReturned =>
    /\ SizeOfPlayerHand >= Len(KnownOfPlayer) => Range(KnownOfPlayer) \subseteq Range(output.ret)
    /\ OtherSamplerReturnsIt

\* C27 witness: the MCTS sampler has returned a hand of two cards for a state
\* in which one card of the human's two is known, and the known card is not
\* in it.
C27_KnownCardLeftOut ==
  /\ output.fn = "MCTS._sample_possible_player_hand"
  /\ Len(KnownOfPlayer) = 1 /\ SizeOfPlayerHand = 2 /\ Len(output.ret) = 2
  /\ KnownOfPlayer[1] \notin Range(output.ret)

\* With no card of the human known and a card in the human's hand the two
\* samplers return the same hands.
SamplersAgreeWithoutKnownCards ==
  (SamplerReturned /\ KnownOfPlayer = <<>> /\ SizeOfPlayerHand > 0) => OtherSamplerReturnsIt

\* The MCTS sampler never returns a card the AI knows the human to hold.
MctsSamplerLeavesKnownOut ==
  output.fn = "MCTS._sample_possible_player_hand"
    => Range(KnownOfPlayer) \cap Range(output.ret) = {}

\* The deals of the family in which the human is dealt King and Queen of a
\* suit.
HumanDealtMarriage(k) ==
  \E suit \in Suits : /\ In(Card("K", suit), Deal(Shuffle(k)).player_hand)
                      /\ In(Card("Q", suit), Deal(Shuffle(k)).player_hand)

\* GamePlay.__init__ on such a deal, the human to lead.
InitMarriage ==
  /\ \E k \in 0..(MaxShuffle + 2), strategy \in Strategies :
        HumanDealtMarriage(k) /\ NewGame(k, strategy)
  /\ input = NoInput /\ output = NoOutput
  /\ NoSearch

\* The round engine started on the deals with a marriage in the human's hand.
SpecMarriage == InitMarriage /\ [][Next]_vars

\* This step awards a marriage bonus to the human.
HumanAwarded ==
  /\ Len(marriage_log') = Len(marriage_log) + 1
  /\ marriage_log'[Len(marriage_log')].side = "player"

\* C28: the human's marriage bonus is awarded only when the human is the
\* leader of the trick and has not yet played a card to it; a request made
\* while leading is not completed after the lead has passed to the computer.
C28_HumanMarriageOnlyOnLead ==
  [][ HumanAwarded => (current_leader = "player" /\ player_played = None) ]_vars

\* C28 witness: the human's marriage is on show, just awarded, in a trick the
\* computer leads and has played its card to.
C28_AwardedWhileFollowing ==
  /\ Running /\ marriage_log # <<>>
  /\ marriage_log[Len(marriage_log)].side = "player"
  /\ marriage_announcement # NoAnnouncement
  /\ marriage_announcement[1] \in Range(player_hand)
  /\ current_leader = "computer" /\ computer_played # None /\ player_played = None

\* The request itself is accepted only from the leader: marriage_pending is
\* set by a step only when the human leads.
RequestOnlyOnLead ==
  [][ (~marriage_pending /\ marriage_pending') => current_leader = "player" ]_vars

\* The request is accepted after the human has played the card of the trick.
RequestedAfterLeading ==
  /\ Running /\ marriage_pending /\ current_leader = "player"
  /\ player_played # None /\ trick_ready

\* handle_event: the human clicks the Close button (the button takes the
\* click whether or not it is drawn)
HumanCloses == Accepting /\ Played(close_game(Self))

NextClose ==
  \/ HumanPlays
  \/ HumanEndsTrick
  \/ AnnouncementTimePasses
  \/ FramePasses
  \/ HumanCloses

\* A round played out, with a click on Close at any moment.
SpecClose == InitRound /\ [][NextClose]_vars

\* C29: close_game has an effect only while first_phase is true: once the
\* stock is exhausted or the game has been closed, a click on Close leaves
\* first_phase and game_closed as they are.
C29_CloseOnlyInFirstPhase ==
  [][ (HumanCloses /\ ~first_phase)
        => (first_phase' = first_phase /\ game_closed' = game_closed) ]_vars

\* C29 witness: the game is marked closed although the stock was drawn to
\* the last card and the trump card with it: the click came in the second
\* phase.
C29_ClosedAfterStockExhausted ==
  /\ Running /\ game_closed /\ ~first_phase
  /\ deck = <<>> /\ trump_card = None

\* A click on Close in a game already closed changes nothing.
CloseTwiceChangesNothing ==
  [][ (HumanCloses /\ game_closed) => UNCHANGED <<first_phase, game_closed>> ]_vars

\* In the first phase the click ends the first phase and marks the game closed.
CloseInFirstPhase ==
  [][ (HumanCloses /\ first_phase) => (~first_phase' /\ game_closed') ]_vars

\* The nodes of the tree below the root: each was made by applying its move
\* for the AI to the state of its parent.
TreeMoves == IF MctsRunning THEN 2..Len(Top.nodes) ELSE {}

\* The state the move of node i was applied to.
StateBefore(i) == Top.nodes[Top.nodes[i].parent].state

\* C30: in the tree descent and expansion of MCTS.play a move is applied for
\* a side only when that side has no unresolved card in its own play slot:
\* every move of the tree, applied for the AI, was applied to a state whose
\* opponent_played is empty.
C30_MovesAlternateWithinTrick ==
  \A i \in TreeMoves : ~Truthy(GetOr(StateBefore(i), "opponent_played", None))

\* C30 witness: a node two moves below the root: the AI's first card was in
\* its play slot and no card of the human had been played when the AI's
\* second card was put in its place.
C30_AiMovesTwiceInTrick ==
  \E i \in TreeMoves :
    /\ Top.nodes[i].parent # 1
    /\ StateBefore(i).opponent_played = Top.nodes[Top.nodes[i].parent].move
    /\ StateBefore(i).player_played = None
    /\ Top.nodes[i].state.opponent_played = Top.nodes[i].move
    /\ Top.nodes[i].move # StateBefore(i).opponent_played
    /\ Top.nodes[i].state.player_played = None

\* The first move below the root is applied to the caller's state, in which
\* the AI has not played.
FirstMoveOnEmptySlot ==
  \A i \in TreeMoves :
    Top.nodes[i].parent = 1 => ~Truthy(GetOr(StateBefore(i), "opponent_played", None))

\* _rollout starts with the side named by current_leader: after the move of
\* an expansion that led the trick this is the AI again, its card still in
\* its play slot.
RolloutStartsWithAiAgain ==
  \E i \in TreeMoves :
    /\ Get(Top.nodes[i].state, "current_leader") = "opponent"
    /\ Top.nodes[i].state.opponent_played = Top.nodes[i].move
    /\ Top.nodes[i].state.opponent_hand # <<>>
    /\ Top.nodes[i].visits > 0

\* The ordered pairs of distinct places of a stock of n cards, and the k-th
\* of them in the order of the first place, then of the second.
DistinctPlaces(n) == { p \in (1..n) \X (1..n) : p[1] # p[2] }
PairBefore(q, p) == q[1] < p[1] \/ (q[1] = p[1] /\ q[2] < p[2])
PairAt(n, k) ==
  CHOOSE p \in DistinctPlaces(n) :
    Cardinality({ q \in DistinctPlaces(n) : PairBefore(q, p) }) = k - 1

\* The calls of resolve_trick_with_chance on the stack that found two cards
\* or more in the stock and have handed a draw outcome to expectiminimax.
DrawsOfPairs ==
  { m \in 1..(Len(stack) - 1) :
      /\ stack[m].fn = "resolve_trick_with_chance" /\ stack[m].at = "outcomes"
      /\ stack[m].k >= 1 }

\* Outcome k is the k-th ordered pair of distinct stock places: the winner's
\* card and the loser's card leave the stock and go one to each hand.
OutcomeIsPair(m) ==
  LET before == stack[m].seen_new
      after == stack[m + 1].seen
      stock == before.remaining_deck
      p == PairAt(Len(stock), stack[m].k)
      winner_hand == IF stack[m].winner = "player" THEN "player_hand" ELSE "opponent_hand"
      loser_hand == IF stack[m].winner = "player" THEN "opponent_hand" ELSE "player_hand"
  IN /\ stack[m].k <= Len(stock) * (Len(stock) - 1)
     /\ after[winner_hand] = Append(before[winner_hand], stock[p[1]])
     /\ after[loser_hand] = Append(before[loser_hand], stock[p[2]])
     /\ Range(after.remaining_deck) = Range(stock) \ {stock[p[1]], stock[p[2]]}
     /\ Len(after.remaining_deck) = Len(stock) - 2

\* The values n / d of a list added up over the product of the denominators.
RECURSIVE Denominators(_)
Denominators(values) ==
  IF values = <<>> THEN 1 ELSE values[1].d * Denominators(Tail(values))
RECURSIVE Numerators(_)
Numerators(values) ==
  IF values = <<>> THEN 0
  ELSE values[1].n * Denominators(Tail(values)) + values[1].d * Numerators(Tail(values))

\* v is the unweighted mean of the values.
IsMeanOf(v, values) ==
  /\ v.inf = 0 /\ \A i \in 1..Len(values) : values[i].inf = 0
  /\ v.n * Denominators(values) * Len(values) = v.d * Numerators(values)

\* The chance node on top of the stack returns in this step; the values of
\* its outcomes are those collected and the one just returned to it.
ChanceNodeReturns ==
  /\ stack # <<>> /\ Top.fn = "resolve_trick_with_chance" /\ Top.at = "outcomes"
  /\ stack' = Rest /\ returned'.some
OutcomeValues == IF returned.some THEN Append(Top.outcomes, returned.v) ELSE Top.outcomes

\* C31: when the search resolves a trick with n >= 2 cards in the stock it
\* explores exactly n * (n - 1) draw outcomes, one for each ordered pair of
\* distinct stock places; in each the two cards leave the stock and go one to
\* each hand; the node's value is the unweighted mean of the outcome values.
C31_EveryOrderedPairOnce ==
  [][ /\ \A m \in DrawsOfPairs : OutcomeIsPair(m)
      /\ ChanceNodeReturns =>
           /\ Len(OutcomeValues)
                = Len(Top.seen_new.remaining_deck) * (Len(Top.seen_new.remaining_deck) - 1)
           /\ IsMeanOf(returned'.v, OutcomeValues) ]_vars

\* C31 witness: a trick was resolved with two cards in the stock; the second
\* outcome, the winner drawing the second card and the loser the first, is
\* being valued, and the first outcome has a value.
C31_SecondOfTwoOutcomes ==
  \E m \in DrawsOfPairs :
    /\ Len(stack[m].seen_new.remaining_deck) = 2
    /\ stack[m].k = 2 /\ Len(stack[m].outcomes) = 1
    /\ OutcomeIsPair(m) /\ PairAt(2, 2) = <<2, 1>>

\* With three cards in the stock the sixth outcome is reached.
SixOutcomesOfThree ==
  \E m \in DrawsOfPairs : Len(stack[m].seen_new.remaining_deck) = 3 /\ stack[m].k = 6

\* The three deciders have been called on the cards of input.
DecidersReturned == output.fn = "trick_deciders"

\* The side that followed, in the engine's name, and the card a side played.
FollowerOfTrick == IF input.leader_is = "player" THEN "computer" ELSE "player"
CardOf(side) == IF side = "player" THEN input.player_card ELSE input.computer_card

\* C32: for every pair of distinct cards, every trump suit and either leader
\* the three deciders agree: the search names the winner the engine names
\* (its "opponent" is the engine's "computer"), card_wins(follower's card,
\* leader's card) is true exactly when the engine names the follower, and
\* the winning card is the same when the same card is led by the other side.
C32_DecidersAgree ==
  DecidersReturned =>
    /\ (output.search = "player") = (output.engine = "player")
    /\ output.search \in {"player", "opponent"} /\ output.engine \in {"player", "computer"}
    /\ output.greedy = (output.engine = FollowerOfTrick)
    /\ CardOf(output.engine)
         = (IF output.relabelled = "player" THEN input.computer_card ELSE input.player_card)

\* C32 witness: the computer led a card that is not a trump, the human
\* followed with a dearer card of another suit that is not a trump either,
\* and all three deciders give the trick to the leader.
C32_OffSuitFollowerLoses ==
  /\ DecidersReturned /\ input.leader_is = "computer"
  /\ SuitOf[input.player_card] # SuitOf[input.computer_card]
  /\ SuitOf[input.player_card] # input.trump /\ SuitOf[input.computer_card] # input.trump
  /\ Value(input.player_card) > Value(input.computer_card)
  /\ output.engine = "computer" /\ output.search = "opponent" /\ ~output.greedy

\* The cards of a state that lie in no hand, not in the stock, not under it
\* and in no play slot: the cards of the earlier tricks, in the won piles.
PlayedEarlier(state) ==
  Range(full_deck)
    \ ( Range(state.opponent_hand) \cup Range(state.player_hand)
        \cup Range(state.remaining_deck)
        \cup {state.trump_card, state.player_played, state.opponent_played} )

\* sample_possible_player_hand has returned a hand for the state of input.
HandSampled == output.fn = "Expectiminimax.sample_possible_player_hand"

\* C33: a hand sampled for the human never contains a card that was played
\* in an earlier trick of the round (a card lying in either won pile).
C33_SampleAvoidsPlayedCards ==
  HandSampled => Range(output.ret) \cap PlayedEarlier(input.state) = {}

\* C33 witness: in the second trick of a round, the first trick's two cards
\* in a won pile, the hand sampled for the human holds one of them.
C33_PlayedCardSampled ==
  /\ HandSampled
  /\ Len(input.state.remaining_deck) = 9 /\ Cardinality(PlayedEarlier(input.state)) = 2
  /\ Range(output.ret) \cap PlayedEarlier(input.state) # {}

\* What the sampler leaves out are the cards of the fields it reads; the
\* cards of the earlier tricks are in none of them.
PlayedCardsUnknown ==
  input.kind = "sample" => PlayedEarlier(input.state) \cap known(input.state) = {}

\* The strict phase, the computer's card on the table and the human to
\* follow: a click on a card is taken as a move or rejected.
StrictFollow ==
  /\ Accepting /\ ~trick_ready /\ ~marriage_pending /\ ~first_phase
  /\ current_leader = "computer" /\ computer_played # None /\ player_played = None

\* The cards of the human's hand handle_event accepts as a move.
AcceptedCards == {player_hand[i] : i \in {j \in 1..Len(player_hand) : valid_move(Self, j)}}

\* The legal moves of the human's hand as the AI's get_valid_moves computes them.
MovesOfGetValidMoves ==
  Range(Expectiminimax_get_valid_moves(player_hand, SuitOf[computer_played], trump_suit))

\* C34: in the strict phase with a card led by the computer the cards
\* handle_event accepts from the human are legalMoves(human hand, led suit,
\* trump suit) as get_valid_moves computes it, and a click on any other card
\* leaves hands, play slots and points unchanged.
C34_AcceptedAreLegalMoves ==
  StrictFollow =>
    /\ AcceptedCards = MovesOfGetValidMoves
    /\ MovesOfGetValidMoves = legalMoves(player_hand, SuitOf[computer_played], trump_suit)
    /\ \A i \in 1..Len(player_hand) :
         player_hand[i] \notin MovesOfGetValidMoves => card_click(Self, i) = {Self}

\* C34 witness: the human holds a card of the led suit and a trump, the led
\* suit is not the trump suit, and handle_event accepts the trump, which is
\* not among the moves of get_valid_moves.
C34_TrumpAcceptedWhileHoldingLedSuit ==
  /\ StrictFollow /\ SuitOf[computer_played] # trump_suit
  /\ \E i, j \in 1..Len(player_hand) :
       /\ SuitOf[player_hand[i]] = SuitOf[computer_played]
       /\ SuitOf[player_hand[j]] = trump_suit
       /\ valid_move(Self, j)
       /\ player_hand[j] \notin MovesOfGetValidMoves
       /\ \E g \in card_click(Self, j) : g.player_played = player_hand[j]

\* What holds of the two: every move of get_valid_moves is accepted by
\* handle_event, and a card handle_event rejects changes nothing.
LegalMovesAreAccepted ==
  StrictFollow =>
    /\ MovesOfGetValidMoves \subseteq AcceptedCards
    /\ \A i \in 1..Len(player_hand) : ~valid_move(Self, i) => card_click(Self, i) = {Self}

\* A card is rejected: the human holds the led suit and clicks a card that
\* is neither of the led suit nor a trump.
CardRejected ==
  StrictFollow /\ \E i \in 1..Len(player_hand) : ~valid_move(Self, i)

\* A trick is ready in the first phase with cards in the stock: End Trick
\* will call draw_cards.
DrawDue ==
  /\ Running /\ trick_ready /\ first_phase /\ deck # <<>>
  /\ player_played # None /\ computer_played # None

\* The winner of the trick on the table.
WinnerOfTrick == determine_trick_winner(player_played, computer_played, current_leader, trump_suit)

\* The hand and the round points of a side in the engine g.
HandOf(g, side) == IF side = "player" THEN g.player_hand ELSE g.computer_hand
RoundPointsOf(g, side) == IF side = "player" THEN g.player_round_points ELSE g.computer_round_points
OtherSide(side) == IF side = "player" THEN "computer" ELSE "player"

\* The round points that are neither values of won cards nor marriage
\* bonuses: the bonus of the last draw.
BonusAwarded ==
  player_round_points + computer_round_points - PileValue(WonCards) - Bonuses(marriage_log)

\* C35: draw_cards with a non-empty stock adds exactly one card to each
\* hand: the winner takes the top stock card, the loser the next one, or the
\* trump indicator when the winner took the last one; then the indicator
\* slot is empty and the winner gets exactly 10 points; otherwise no points
\* change.  The bonus is awarded at most once in a round.
C35_OneCardEachAndOneBonus ==
  /\ DrawDue =>
       LET winner == WinnerOfTrick
           loser == OtherSide(winner)
           n == Len(deck)
           h == draw_cards(Self, winner)
       IN /\ HandOf(h, winner) = Append(HandOf(Self, winner), deck[n])
          /\ trump_card # None
          /\ HandOf(h, loser)
               = Append(HandOf(Self, loser), IF n = 1 THEN trump_card ELSE deck[n - 1])
          /\ h.deck = SubSeq(deck, 1, IF n = 1 THEN 0 ELSE n - 2)
          /\ h.trump_card = (IF n = 1 THEN None ELSE trump_card)
          /\ RoundPointsOf(h, winner)
               = RoundPointsOf(Self, winner) + (IF n = 1 THEN 10 ELSE 0)
          /\ RoundPointsOf(h, loser) = RoundPointsOf(Self, loser)
          /\ BonusAwarded = 0
  /\ Running => /\ BonusAwarded \in {0, 10}
                /\ BonusAwarded = 10 => deck = <<>> /\ ~first_phase

\* C35 witness: the last stock card and the trump indicator have been
\* drawn, the 10 points are in the winner's round points.
C35_LastDrawTaken ==
  /\ Running /\ deck = <<>> /\ trump_card = None /\ ~first_phase /\ ~game_closed
  /\ BonusAwarded = 10

\* The draw of the last stock card is due.
LastDrawDue == DrawDue /\ Len(deck) = 1

\* check_round_end has been called on the engine of input with both hands
\* empty: a round has ended.
RoundEnded ==
  /\ output.fn = "check_round_end"
  /\ input.g.player_hand = <<>> /\ input.g.computer_hand = <<>>

\* The game points the call has added to the human's and to the computer's.
GamePointsAdded ==
  << output.g.player_game_points - input.g.player_game_points,
     output.g.computer_game_points - input.g.computer_game_points >>

\* The table of the game points: what the human and the computer get for
\* the round that ended in the engine g.
GamePointTable(g) ==
  LET p == g.player_round_points
      c == g.computer_round_points
      more == IF p > c THEN "player" ELSE IF c > p THEN "computer" ELSE None
      loser_tricks == IF more = "player" THEN g.computer_tricks ELSE g.player_tricks
      loser_points == IF more = "player" THEN c ELSE p
      points == IF p >= 66 \/ c >= 66
                THEN IF loser_tricks = 0 THEN 3 ELSE IF loser_points < 33 THEN 2 ELSE 1
                ELSE 1
  IN IF g.game_closed /\ p < 66 THEN <<0, 1>>
     ELSE IF more = "player" THEN <<points, 0>>
     ELSE IF more = "computer" THEN <<0, points>>
     ELSE <<0, 0>>

\* The round has ended with equal round points of 66 or more.
TiedAboveSixtySix ==
  /\ input.g.player_round_points = input.g.computer_round_points
  /\ input.g.player_round_points >= 66

\* C36: when a round ends check_round_end awards the game points of the
\* table: 1 to the computer if the human closed and has fewer than 66;
\* otherwise, with a side at 66 or more, 3, 2 or 1 to the side with more
\* round points (3 if the loser won no trick, else 2 if the loser has fewer
\* than 33); with neither at 66, 1 to the side with more points and nothing
\* on equal points.  At most one side's game points change, by 1 to 3.
C36_GamePointsByTable ==
  RoundEnded =>
    /\ GamePointsAdded = GamePointTable(input.g)
    /\ GamePointsAdded[1] = 0 \/ GamePointsAdded[2] = 0
    /\ GamePointsAdded[1] \in 0..3 /\ GamePointsAdded[2] \in 0..3

\* C36 witness: the round ended with 75 round points on each side, neither
\* side with more, and the computer has got a game point.
C36_TieAboveSixtySixToComputer ==
  /\ RoundEnded /\ TiedAboveSixtySix /\ ~input.g.game_closed
  /\ GamePointsAdded[1] = 0 /\ GamePointsAdded[2] >= 1

\* The table is followed whenever the round points are not equal at 66 or
\* more, and in every case one side at most gets game points, 1 to 3.
TableOffTies ==
  RoundEnded =>
    /\ ~TiedAboveSixtySix => GamePointsAdded = GamePointTable(input.g)
    /\ GamePointsAdded[1] = 0 \/ GamePointsAdded[2] = 0
    /\ GamePointsAdded[1] \in 0..3 /\ GamePointsAdded[2] \in 0..3

\* Rows of the table taken: the penalty of a closed game, 3 for a loser
\* without a trick, 2 for a loser under 33, nothing on equal points under 66.
TableRowsTaken ==
  /\ RoundEnded /\ ~TiedAboveSixtySix
  /\ \/ input.g.game_closed /\ input.g.player_round_points < 66 /\ GamePointsAdded = <<0, 1>>
     \/ ~input.g.game_closed /\ GamePointsAdded = <<3, 0>>
     \/ ~input.g.game_closed /\ GamePointsAdded = <<0, 2>>
     \/ input.g.player_round_points = 60 /\ GamePointsAdded = <<0, 0>>

\* End Trick is due with both hands empty: the round ends in this step and
\* reset_round, if the game goes on, deals the next one.
RoundEnds == trick_ready /\ player_hand = <<>> /\ computer_hand = <<>>

\* The stock is what it was, or what it was without its last cards.
StockShrinksOrStays == Len(deck') <= Len(deck) /\ deck' = SubSeq(deck, 1, Len(deck'))

\* C37: within a round the stock never grows and cards are drawn only while
\* first_phase is true; when the stock becomes empty first_phase becomes
\* false; and once false, by exhaustion or by closing, it stays false until
\* reset_round starts the next round.
C37_StockShrinksPhaseStaysClosed ==
  [][ (Running /\ ~RoundEnds) =>
        /\ StockShrinksOrStays
        /\ deck' # deck => first_phase
        /\ deck' = <<>> => ~first_phase'
        /\ ~first_phase => ~first_phase' ]_vars

\* C37 witness: the game was closed with the whole stock left, two tricks
\* have been played since and no card has been drawn.
C37_TricksPlayedWithStockClosed ==
  /\ Running /\ game_closed /\ ~first_phase
  /\ Len(deck) = 11 /\ player_tricks + computer_tricks >= 2

\* In every state of a round an empty stock means the strict phase.
EmptyStockIsStrictPhase == (Running /\ deck = <<>>) => ~first_phase

\* reset_round has dealt a round: the stock is whole and first_phase true.
ResetStartsFirstPhase ==
  (RoundEnded /\ output.g.screen = "game") =>
    output.g.first_phase /\ Len(output.g.deck) = 11 /\ ~output.g.game_closed

\* A round that ended in the strict phase has been followed by a new one.
NewRoundAfterStrictPhase ==
  RoundEnded /\ ~input.g.first_phase /\ output.g.screen = "game" /\ output.g.first_phase

\* The search is at a human-to-move node: the loop over the samples.
HumanNode == stack # <<>> /\ Top.fn = "expectiminimax" /\ Top.at = "min"

\* The human's hand in the state of the node.
HandAtNode == Deref(Heap, Top.state).player_hand

\* The frame of the node after the step.
NodeAfter == stack'[Len(stack)]

\* The smaller of the sample's worst value so far and the value a child has
\* just returned.
WorstWith(worst, value) == IF Less(value, worst) THEN value ELSE worst

\* The sample's part of the node: a sample without a legal move is valued by
\* evaluate(state), a sample with legal moves by the smallest value of its
\* children; and the node returns after n_player_samples samples with the
\* mean of their values.
SampleValuedByMinimum ==
  /\ (HumanNode /\ ~Top.in_sample /\ Len(stack') = Len(stack) /\ ~NodeAfter.in_sample)
       => NodeAfter.sample_values = Append(Top.sample_values, evaluate(Deref(Heap, Top.state)))
  /\ (HumanNode /\ Top.in_sample /\ returned.some)
       => IF NodeAfter.in_sample
          THEN NodeAfter.sample_worst = WorstWith(Top.sample_worst, returned.v)
          ELSE NodeAfter.sample_values
                 = Append(Top.sample_values, WorstWith(Top.sample_worst, returned.v))
  /\ (HumanNode /\ Top.in_sample /\ ~returned.some) => Top.sample_worst = PosInf
  /\ (HumanNode /\ Len(stack') < Len(stack))
       => /\ Len(Top.sample_values) = n_player_samples
          /\ IsMeanOf(returned'.v, Top.sample_values)

\* C38: at a human-to-move node the search draws n_player_samples hands,
\* each of the size of the human's hand in the node's state; a sample's
\* value is the minimum of its children's values (evaluate(state) if it has
\* no legal move), and the node's value is the mean of the sample values.
C38_SamplesOfHandSizeMinThenMean ==
  [][ /\ (HumanNode /\ ~Top.in_sample /\ Len(stack') = Len(stack) /\ NodeAfter.in_sample)
           => Len(NodeAfter.sampled_hand) = Len(HandAtNode)
      /\ SampleValuedByMinimum ]_vars

\* C38 witness: the human holds two cards, both known to the AI, and the
\* hand sampled at the node holds more than two.
C38_SampleLargerThanHand ==
  /\ HumanNode /\ Top.in_sample
  /\ Len(HandAtNode) = 2 /\ Len(Top.sampled_hand) > 2

\* What holds of the node: the values are minima and the node's value their
\* mean over n_player_samples samples.
MinimaAveraged == [][SampleValuedByMinimum]_vars

\* A node has collected the values of its n_player_samples samples.
SamplesCollected ==
  HumanNode /\ ~Top.in_sample /\ Len(Top.sample_values) = n_player_samples

\* A sample has two legal moves, valued differently by the search.
ChildrenOfDifferentValue ==
  /\ HumanNode /\ Top.in_sample /\ returned.some /\ Top.i >= 2
  /\ returned.v # Top.sample_worst /\ Top.sample_worst # PosInf

\* Expectiminimax.play has returned a card of a hand with legal moves.
PlayChose == output.fn = "Expectiminimax.play" /\ output.valid_moves # <<>>

\* Move j is the first of the moves of greatest value.
FirstOfGreatest(values, j) ==
  /\ \A m \in 1..Len(values) : ~Less(values[j], values[m])
  /\ \A m \in 1..(j - 1) : Less(values[m], values[j])

\* What play returned is the first move, in the order of valid_moves, whose
\* value is the greatest.
ReturnedFirstOfGreatest ==
  PlayChose =>
    /\ Len(output.values) = Len(output.valid_moves)
    /\ \E j \in 1..Len(output.valid_moves) :
         /\ output.ret = output.valid_moves[j]
         /\ output.value = output.values[j]
         /\ FirstOfGreatest(output.values, j)

\* play has called for the value of its next move: the frame on top of
\* play's after the step, on the state with the move applied.
ValueAsked == stack # <<>> /\ Top.fn = "play" /\ Len(stack') = Len(stack) + 1
Asked == stack'[Len(stack')]

\* C39: Expectiminimax.play returns the first move, in legal-move order,
\* whose value is the maximum over the legal moves; a move that completes
\* the trick is valued by resolve_trick_with_chance at max_depth, any other
\* move by expectiminimax as a human-to-move node at max_depth - 1.
C39_FirstBestMoveValuedByDepth ==
  [][ /\ ReturnedFirstOfGreatest'
      /\ ValueAsked =>
           /\ Asked.seen.opponent_played = Top.valid_moves[Top.i + 1]
           /\ IF TrickComplete(Asked.seen)
              THEN Asked.fn = "resolve_trick_with_chance" /\ Asked.depth = self_max_depth
              ELSE /\ Asked.fn = "expectiminimax" /\ Asked.depth = self_max_depth - 1
                   /\ Asked.is_ai_turn = FALSE ]_vars

\* C39 witness: two moves have the greatest value and the first is
\* returned, although a later one is as good.
C39_FirstOfEqualMovesReturned ==
  /\ PlayChose /\ Len(output.valid_moves) >= 2
  /\ \E j, m \in 1..Len(output.valid_moves) :
       /\ j < m /\ output.ret = output.valid_moves[j]
       /\ output.values[j] = output.values[m]
       /\ FirstOfGreatest(output.values, j)

\* A later move has replaced the first: its value is strictly greater, and
\* it completed the trick.
LaterMoveStrictlyGreater ==
  /\ PlayChose /\ output.ret # output.valid_moves[1]
  /\ Less(output.values[1], output.value)
  /\ input.state.player_played # None

\* The keys of the snapshot the strategies read: the AI's hand, both play
\* slots, both sides' round points, the leader's card and the led suit.
KeysRead ==
  {"opponent_hand", "player_played", "opponent_played", "player_round_points",
   "opponent_round_points", "leader_card", "allowed_suit", "trump_suit"}

\* opponent.play was called to follow the card the human has led.
AiFollowsHuman == ai_call.made /\ Truthy(ai_call.game_state.allowed_suit)

\* The legal moves of the hand passed that beat the human's card.
WinningMoves ==
  { c \in legalMoves(ai_call.hand, ai_call.game_state.allowed_suit, ai_call.game_state.trump_suit) :
      card_wins(c, ai_call.game_state.player_played, ai_call.game_state.trump_suit,
                ai_call.game_state.allowed_suit) }

\* C40: the snapshot of get_game_state carries every field the strategies
\* read, so that play of each strategy can be called on it without failing,
\* and TrickBasedGreedy, following the human's lead, sees the card it has to
\* beat and wins the trick when a legal move can.
C40_SnapshotServesStrategies ==
  ai_call.made =>
    /\ KeysRead \subseteq DOMAIN ai_call.game_state
    /\ ai_call.ret # Raised
    /\ (AiFollowsHuman /\ ai_call.strategy = "TrickBasedGreedy" /\ WinningMoves # {})
         => ai_call.ret \in WinningMoves

\* C40 witness: TrickBasedGreedy follows the human's card with a hand that
\* holds a legal move beating it; the snapshot has no "leader_card", and the
\* card returned does not win the trick.
C40_GreedyLosesWinnableTrick ==
  /\ AiFollowsHuman /\ ai_call.strategy = "TrickBasedGreedy"
  /\ "leader_card" \notin DOMAIN ai_call.game_state
  /\ WinningMoves # {} /\ ai_call.ret \notin WinningMoves /\ ai_call.ret # Raised
  /\ determine_trick_winner(ai_call.game_state.player_played, ai_call.ret, "player",
                            ai_call.game_state.trump_suit) = "player"

\* Expectiminimax.play called on the snapshot: a KeyError leaves the call.
SearchFailsOnSnapshot ==
  /\ ai_call.made /\ ai_call.strategy = "Expectiminimax" /\ ai_call.ret = Raised
  /\ ai_call.hand # <<>> /\ "opponent_hand" \notin DOMAIN ai_call.game_state

\* The keys the snapshot has in every call, and JustRandom, which reads
\* allowed_suit and trump_suit only, returning a card of the hand.
SnapshotKeys ==
  ai_call.made =>
    /\ DOMAIN ai_call.game_state
         = {"player_played", "player_round_points", "computer_round_points",
            "remaining_deck", "trump_card", "trump_suit", "computer_hand", "player_hand",
            "first_phase", "current_leader", "allowed_suit"}
    /\ (ai_call.strategy = "JustRandom" /\ ai_call.hand # <<>>) => In(ai_call.ret, ai_call.hand)

====
